---------------------------- MODULE Spec2Model ----------------------------
(***************************************************************************)
(* Content processing and publishing pipeline of the trucking-news         *)
(* forwarder: the Delivery Client's request loop (FacebookGraphAPI), the   *)
(* publishing and metrics ticks (PostManager / FacebookPost), the          *)
(* ingestion and post-creation runs (CronJobs / Article), and the pure     *)
(* stages between them (ContentFilter, DuplicateDetector, PostGenerator).  *)
(*                                                                         *)
(* The specifications share the module, each over its own variables:       *)
(*   SpecReq     one createPost call of the Delivery Client, one HTTP      *)
(*               attempt per step;                                         *)
(*   Spec        publishing ticks over the facebook_posts table;           *)
(*   SpecIngest  ingestion triggers over the articles table;               *)
(*   SpecCreate  post-creation runs, with an ingestion run beside them;    *)
(*   SpecMetrics metrics ticks over the facebook_posts table;              *)
(*   SpecFilter  one call of ContentFilter.filterArticles;                 *)
(*   SpecDedupe  one call of the DuplicateDetector;                        *)
(*   SpecCompose one call of PostGenerator.assemblePost;                   *)
(*   SpecSchedule post-creation runs computing their posting time;         *)
(*   SpecCleanup one cleanup tick;                                         *)
(*   SpecSort    one call of ContentFilter.sortByEngagement;               *)
(*   SpecValidate one call of PostGenerator.validatePost;                  *)
(*   SpecFlag    publishing ticks over the table kept by a processed flag; *)
(*   SpecScrape  one call of RSSFeedScraper.scrapeAllSources;              *)
(*   SpecRefresh metrics refreshes of the PostManager over that table;     *)
(*   SpecCredentials one call of PostManager.validateCredentials.          *)
(***************************************************************************)
EXTENDS Integers, Sequences, FiniteSets, TLC

VARIABLES cp,            \* SpecReq: the createPost call in progress
          posts,         \* Spec: the facebook_posts table
          now,           \* Spec: the clock
          tick,          \* Spec: the publishing ticks in flight
          crashes,       \* Spec: process restarts so far
          delivery,      \* Spec: what the Delivery Client was asked and did, per post
          isProcessing,  \* SpecIngest: CronJobs.isProcessing
          run,           \* SpecIngest: the ingestion triggers in flight
          articles,      \* SpecIngest: the articles table
          queue,         \* SpecIngest: the processing_queue table
          scrapes,       \* SpecIngest: scrapeAllSources calls so far
          processed,     \* SpecCreate: the is_processed column of the articles
          fbPosts,       \* SpecCreate: the facebook_posts rows, in rowid order
          creation,      \* SpecCreate: the post-creation runs in flight
          discarded,     \* SpecCreate: articles a finished run failed validation for
          creations,     \* SpecCreate: post-creation triggers so far
          dd,            \* SpecDedupe: one call of the DuplicateDetector
          cf,            \* SpecFilter: one call of ContentFilter.filterArticles
          gp,            \* SpecCompose: one call of PostGenerator.assemblePost
          published,     \* SpecMetrics: the facebook_posts rows the metrics tick reads
          mt,            \* SpecMetrics: the metrics tick
          metricsTicks,  \* SpecMetrics: metrics ticks so far
          sch,           \* SpecSchedule: the clock and the last scheduled run,
          cl,            \* SpecCleanup: the cleanup tick and the rows it reads,
          so,            \* SpecSort: one call of ContentFilter.sortByEngagement,
          vp,            \* SpecValidate: one call of PostGenerator.validatePost,
          fl,            \* SpecFlag: the publishing tick over the table kept by the processed flag,
          sa,            \* SpecScrape: one call of RSSFeedScraper.scrapeAllSources,
          rf,            \* SpecRefresh: the table and the metrics refresh of the PostManager,
          vc             \* SpecCredentials: one call of PostManager.validateCredentials

vars == <<cp, posts, now, tick, crashes, delivery,
          isProcessing, run, articles, queue, scrapes,
          processed, fbPosts, creation, discarded, creations, dd, cf, gp,
          published, mt, metricsTicks,
          sch, cl, so, vp, fl, sa, rf, vc>>

reqVars == <<cp>>
pubVars == <<posts, now, tick, crashes, delivery>>
ingVars == <<isProcessing, run, articles, queue, scrapes>>
creVars == <<processed, fbPosts, creation, discarded, creations>>
dedVars == <<dd>>
filVars == <<cf>>
comVars == <<gp>>
metVars == <<published, mt, metricsTicks>>

(***************************************************************************)
(* Bounds of the model                                                     *)
(***************************************************************************)
MaxRetryAttempts == 3      \* largest configured facebook.retryAttempts explored
NumPosts == 2              \* rows of facebook_posts
NumTicks == 2              \* publishing ticks that may be in flight together
MaxTime == 1               \* clock values 0..MaxTime
MaxCrashes == 1            \* process restarts explored
NumUrls == 2               \* distinct article URLs offered by the feeds
MaxScrapes == 3            \* scrapeAllSources calls explored
NumRuns == 2               \* ingestion triggers that may be in flight together
NumArticles == 2           \* stored articles waiting for post creation
NumCreationRuns == 2       \* post-creation runs that may be in flight together
MaxCreations == 2          \* post-creation triggers explored
MaxScrapesBeside == 1      \* scrapeAllSources calls explored beside post creation
MaxCandidates == 3         \* new candidates handed to the DuplicateDetector
MaxRecent == 1             \* recent-window articles handed to the DuplicateDetector
MaxBatch == 2              \* scraped items handed to the ContentFilter
MaxMetricsTicks == 2       \* metrics ticks explored
MaxDay == 1                \* days of the clock after the first
MaxSlotRuns == 2           \* post-creation runs that reach their scheduling step
NumRows == 2               \* rows in the tables the cleanup tick reads
MaxSorted == 3             \* longest batch handed to sortByEngagement
NumFlagPosts == 2          \* rows of the table kept by the processed flag
MaxFlagTime == 2           \* last instant of the clock beside that table
MaxFlagTicks == 2          \* publishing ticks over that table
MaxSources == 4            \* enabled rss sources
MaxConcurrent == 3         \* largest scraping.maxConcurrent
NumRefreshPosts == 2       \* rows of the table the metrics refresh reads
MaxRefreshTicks == 2       \* metrics refreshes of the PostManager
MaxCountedRefreshes == 3   \* the count of token refreshes stops counting here

(***************************************************************************)
(* Program constants                                                       *)
(***************************************************************************)
RetryAttempts == 3         \* facebook.retryAttempts default
RetryDelay == 5000         \* facebook.retryDelay default (ms)
SimilarityThreshold == 70  \* similarityThreshold 0.7, in hundredths
TitleSimilarityWeight == 50    \* titleSimilarityWeight 0.5, in hundredths
ContentSimilarityWeight == 30  \* contentSimilarityWeight 0.3, in hundredths
UrlSimilarityWeight == 20      \* urlSimilarityWeight 0.2, in hundredths
MaxPostLength == 280       \* content.maxPostLength default
HeadlineLimit == 100       \* longest headline createCatchyHeadline returns
SummaryLimit == 150        \* longest summary createSummary returns
RetentionDays == 30        \* the retention window of runCleanup

(***************************************************************************)
(* FacebookGraphAPI.makeRequest                                            *)
(***************************************************************************)
\* What one axios(config) call can do: resolve, reject without a response
\* (network error / timeout), or reject with an error response carrying an
\* HTTP status and an optional Graph API error code (0 = no code).
Statuses == {400, 403, 500}
Codes == {0, 190, 463}
Responses ==
  {[kind |-> "ok", status |-> 200, code |-> 0],
   [kind |-> "network", status |-> 0, code |-> 0]}
  \cup {[kind |-> "http", status |-> s, code |-> c] : s \in Statuses, c \in Codes}

\* data?.error?.code === 190 || data?.error?.code === 463
IsTokenError(resp) == resp.kind = "http" /\ resp.code \in {190, 463}
\* status === 400 || status === 403
IsClientError(resp) == resp.kind = "http" /\ resp.status \in {400, 403}
\* the errors makeRequest rethrows at once / the errors it retries
NonRetryable(resp) == IsTokenError(resp) \/ IsClientError(resp)
Retryable(resp) == resp.kind # "ok" /\ ~NonRetryable(resp)

\* The state of one makeRequest call on entry: the for loop
\* (attempt = 1; attempt <= retryAttempts) runs its body only when
\* retryAttempts >= 1; otherwise the function falls off its end and
\* resolves to undefined.
NewRequest(ra) ==
  [retryAttempts |-> ra, attempt |-> 1, calls |-> 0, waits |-> <<>>,
   resps |-> <<>>,
   st |-> IF 1 <= ra THEN "running" ELSE "returned",
   data |-> "undefined", err |-> ""]

Raise(r, msg) == [r EXCEPT !.st = "raised", !.err = msg]

\* The wait of retryDelay before every retry.
WaitAndRetryConstant(r) ==
  [r EXCEPT !.waits = Append(@, RetryDelay), !.attempt = @ + 1]

\* setTimeout(resolve, this.retryDelay * attempt), then attempt++
WaitAndRetry(r) ==
  [r EXCEPT !.waits = Append(@, RetryDelay * r.attempt), !.attempt = @ + 1]

\* makeRequest taking the attempt before the last for the last one.
makeRequestOneAttemptShort(r, resp) ==
  LET r1 == [r EXCEPT !.calls = @ + 1, !.resps = Append(@, resp)]
      isLastAttempt == r.attempt = r.retryAttempts - 1
  IN  IF resp.kind = "ok"
        THEN [r1 EXCEPT !.st = "returned", !.data = "data"]
      ELSE IF resp.kind = "http"
        THEN IF IsTokenError(resp) THEN Raise(r1, "Token error")
             ELSE IF IsClientError(resp) THEN Raise(r1, "Facebook API error")
             ELSE IF isLastAttempt
               THEN Raise(r1, "Facebook API failed after attempts")
             ELSE WaitAndRetry(r1)
      ELSE IF isLastAttempt
        THEN Raise(r1, "Facebook API network error after attempts")
      ELSE WaitAndRetry(r1)

\* makeRequest without the branch that rethrows HTTP 400 and 403 at once.
makeRequestRetriesClientErrors(r, resp) ==
  LET r1 == [r EXCEPT !.calls = @ + 1, !.resps = Append(@, resp)]
      isLastAttempt == r.attempt = r.retryAttempts
  IN  IF resp.kind = "ok"
        THEN [r1 EXCEPT !.st = "returned", !.data = "data"]
      ELSE IF resp.kind = "http"
        THEN IF IsTokenError(resp) THEN Raise(r1, "Token error")
             ELSE IF isLastAttempt
               THEN Raise(r1, "Facebook API failed after attempts")
             ELSE WaitAndRetry(r1)
      ELSE IF isLastAttempt
        THEN Raise(r1, "Facebook API network error after attempts")
      ELSE WaitAndRetry(r1)

\* One iteration of the loop body: the axios call answers resp.
makeRequest(r, resp) ==
  LET r1 == [r EXCEPT !.calls = @ + 1, !.resps = Append(@, resp)]
      isLastAttempt == r.attempt = r.retryAttempts
  IN  IF resp.kind = "ok"
        THEN [r1 EXCEPT !.st = "returned", !.data = "data"]
      ELSE IF resp.kind = "http"
        THEN IF IsTokenError(resp) THEN Raise(r1, "Token error")
             ELSE IF IsClientError(resp) THEN Raise(r1, "Facebook API error")
             ELSE IF isLastAttempt
               THEN Raise(r1, "Facebook API failed after attempts")
             ELSE WaitAndRetry(r1)
      ELSE IF isLastAttempt
        THEN Raise(r1, "Facebook API network error after attempts")
      ELSE WaitAndRetry(r1)

(***************************************************************************)
(* FacebookGraphAPI.createPost / createPostWithImage / createTextPost      *)
(***************************************************************************)
\* What the caller of makeRequest sees once the request r has ended:
\* response.id is read from the returned data, which throws a TypeError
\* when makeRequest resolved to undefined.
RequestFailed(r) == r.st = "raised" \/ (r.st = "returned" /\ r.data = "undefined")
RequestError(r) == IF r.st = "raised" THEN r.err
                   ELSE "Cannot read properties of undefined"

\* createTextPost: one makeRequest on /feed; its error is createPost's error.
createTextPost(c) ==
  IF c.rq.st = "running" THEN c
  ELSE IF RequestFailed(c.rq)
    THEN [c EXCEPT !.st = "raised", !.err = RequestError(c.rq)]
  ELSE [c EXCEPT !.st = "returned"]

\* createPostWithImage: one makeRequest on /photos; whatever error it ends
\* with is caught and the post is retried as a text post.
createPostWithImage(c) ==
  IF c.rq.st = "running" THEN c
  ELSE IF RequestFailed(c.rq)
    THEN createTextPost([c EXCEPT !.phase = "text", !.photoRq = c.rq,
                                  !.requests = @ + 1,
                                  !.rq = NewRequest(c.rq.retryAttempts)])
  ELSE [c EXCEPT !.st = "returned"]

\* Continue the call up to its next await.
Continue(c) == IF c.phase = "photo" THEN createPostWithImage(c)
               ELSE createTextPost(c)

NoRequest == [retryAttempts |-> 0, attempt |-> 0, calls |-> 0, waits |-> <<>>,
              resps |-> <<>>, st |-> "none", data |-> "undefined", err |-> ""]

\* createPost(postData) on entry: image_url selects the photo path.
createPost(hasImage, ra) ==
  Continue([hasImage |-> hasImage,
            phase |-> IF hasImage THEN "photo" ELSE "text",
            rq |-> NewRequest(ra), photoRq |-> NoRequest,
            requests |-> 1, st |-> "running", err |-> ""])

\* The call after the pending axios call answered resp.
createPostStep(c, resp) == Continue([c EXCEPT !.rq = makeRequest(c.rq, resp)])

(***************************************************************************)
(* SpecReq: one createPost call, one HTTP attempt per step                 *)
(***************************************************************************)
InitReq ==
  /\ \E h \in BOOLEAN, ra \in 0..MaxRetryAttempts : cp = createPost(h, ra)

Attempt ==
  /\ cp.st = "running"
  /\ \E resp \in Responses : cp' = createPostStep(cp, resp)


(***************************************************************************)
(* The outcomes of a whole createPost call, over every sequence of         *)
(* responses: what the publishing tick sees of the Delivery Client.        *)
(***************************************************************************)
RECURSIVE Outcomes(_, _)
Outcomes(c, R) ==
  IF c.st = "running"
    THEN UNION {Outcomes(createPostStep(c, resp), R) : resp \in R}
    ELSE {[ok |-> c.st = "returned", error |-> c.err]}

\* The responses the publishing ticks are explored with: a success, a
\* network error and a malformed-request rejection.
TickResponses ==
  {resp \in Responses : resp.kind \in {"ok", "network"}
                         \/ (resp.status = 400 /\ resp.code = 0)}

createPostOutcomes ==
  [h \in BOOLEAN |-> Outcomes(createPost(h, RetryAttempts), TickResponses)]

(***************************************************************************)
(* The facebook_posts table (FacebookPost)                                 *)
(***************************************************************************)
PostIds == 1..NumPosts
Ticks == 1..NumTicks
NULL == 0                  \* facebook_post_id IS NULL
NoTime == -1               \* posted_time IS NULL

\* A row as FacebookPost.create leaves it: status 'pending', nothing
\* recorded.
NewPost(sched) ==
  [status |-> "pending", scheduled_time |-> sched,
   facebook_post_id |-> NULL, posted_time |-> NoTime, error_message |-> ""]

\* Whether the article joined to post p has an image_url: the articles of
\* the odd rows do.
HasImage(p) == p % 2 = 1

\* The time slot post p was scheduled for.
ScheduledTime(p) == (p - 1) % (MaxTime + 1)

\* FacebookPost.updateStatus(id, status, updates): one unconditional
\* UPDATE ... SET status = ?, <updates> WHERE id = ?
updateStatus(table, id, status, updates) ==
  [table EXCEPT ![id] =
     [f \in DOMAIN @ |-> IF f = "status" THEN status
                         ELSE IF f \in DOMAIN updates THEN updates[f]
                         ELSE @[f]]]

\* Ascending order of scheduled_time, rows of equal time in rowid order.
Before(table, a, b) ==
  \/ table[a].scheduled_time < table[b].scheduled_time
  \/ (table[a].scheduled_time = table[b].scheduled_time /\ a < b)

RECURSIVE Ordered(_, _)
Ordered(table, S) ==
  IF S = {} THEN <<>>
  ELSE LET first == CHOOSE a \in S : \A b \in S \ {a} : Before(table, a, b)
       IN  <<first>> \o Ordered(table, S \ {first})

\* FacebookPost.getReadyToPost(): WHERE status = 'pending' AND
\* scheduled_time <= now ORDER BY scheduled_time ASC
getReadyToPost(table, t) ==
  Ordered(table, {p \in PostIds : /\ table[p].status = "pending"
                                  /\ table[p].scheduled_time <= t})

(***************************************************************************)
(* PostManager: the publishing tick                                        *)
(***************************************************************************)
\* calls counts this tick's createPost calls per post; unmarked holds the
\* posts whose 'posting' update was rejected in this tick.
IdleTick == [pc |-> "idle", readyPosts |-> <<>>, i |-> 0,
             calls |-> [p \in PostIds |-> 0], unmarked |-> {},
             result |-> NULL, error |-> "", outcome |-> "none"]

NoDelivery == [raised |-> {}, accepted |-> {}]

InitPub ==
  /\ posts = [p \in PostIds |-> NewPost(ScheduledTime(p))]
  /\ now = 0
  /\ tick = [t \in Ticks |-> IdleTick]
  /\ crashes = 0
  /\ delivery = [p \in PostIds |-> NoDelivery]

Cur(t) == tick[t].readyPosts[tick[t].i]

\* processScheduledPosts: select the batch and enter the loop.  (An empty
\* batch ends the tick at once and changes nothing.)
processScheduledPosts(t) ==
  /\ tick[t].pc = "idle"
  /\ LET readyPosts == getReadyToPost(posts, now)
     IN  /\ readyPosts # <<>>
         /\ tick' = [tick EXCEPT ![t] = [IdleTick EXCEPT !.pc = "publishPost",
                                           !.readyPosts = readyPosts, !.i = 1]]
  /\ UNCHANGED <<posts, now, crashes, delivery>>

\* publishPost, first await: updateStatus(id, 'posting').  A rejected
\* UPDATE lands in the catch block.
MarkPosting(t) ==
  /\ tick[t].pc = "publishPost"
  /\ \/ /\ posts' = updateStatus(posts, Cur(t), "posting", <<>>)
        /\ tick' = [tick EXCEPT ![t].pc = "createPost"]
     \/ /\ tick' = [tick EXCEPT ![t].pc = "catch", ![t].error = "store error",
                                ![t].unmarked = @ \cup {Cur(t)}]
        /\ UNCHANGED posts
  /\ UNCHANGED <<now, crashes, delivery>>

\* publishPost, second await: this.api.createPost(...), the Delivery
\* Client's whole call.  A success returns a fresh facebook_post_id, here
\* the identity of the tick that obtained it.
CallCreatePost(t) ==
  /\ tick[t].pc = "createPost"
  /\ \E out \in createPostOutcomes[HasImage(Cur(t))] :
       /\ tick' = [tick EXCEPT
            ![t].calls[Cur(t)] = @ + 1,
            ![t].pc = IF out.ok THEN "success" ELSE "catch",
            ![t].result = IF out.ok THEN t ELSE NULL,
            ![t].error = out.error]
       /\ delivery' = [delivery EXCEPT
            ![Cur(t)].raised = IF out.ok THEN @ ELSE @ \cup {t},
            ![Cur(t)].accepted = IF out.ok THEN @ \cup {t} ELSE @]
  /\ UNCHANGED <<posts, now, crashes>>

\* publishPost, third await: updateStatus(id, 'posted', {facebook_post_id,
\* post_url, posted_time}).  A rejected UPDATE lands in the catch block too.
MarkPosted(t) ==
  /\ tick[t].pc = "success"
  /\ \/ /\ posts' = updateStatus(posts, Cur(t), "posted",
                       [facebook_post_id |-> tick[t].result, posted_time |-> now])
        /\ tick' = [tick EXCEPT ![t].pc = "returned", ![t].outcome = "success"]
     \/ /\ tick' = [tick EXCEPT ![t].pc = "catch", ![t].error = "store error"]
        /\ UNCHANGED posts
  /\ UNCHANGED <<now, crashes, delivery>>

\* publishPost, catch block: updateStatus(id, 'failed', {error_message}).
\* When this UPDATE is rejected the error leaves publishPost and is caught
\* and logged by the loop of processScheduledPosts.
MarkFailed(t) ==
  /\ tick[t].pc = "catch"
  /\ \/ /\ posts' = updateStatus(posts, Cur(t), "failed",
                       [error_message |-> tick[t].error])
        /\ tick' = [tick EXCEPT ![t].pc = "returned", ![t].outcome = "failure"]
     \/ /\ tick' = [tick EXCEPT ![t].pc = "returned", ![t].outcome = "threw"]
        /\ UNCHANGED posts
  /\ UNCHANGED <<now, crashes, delivery>>

\* The loop leaving the batch at the first post that was not published.
NextPostStopsAtFailure(t) ==
  /\ tick[t].pc = "returned"
  /\ tick' = [tick EXCEPT ![t] =
       IF tick[t].i < Len(tick[t].readyPosts) /\ tick[t].outcome = "success"
         THEN [@ EXCEPT !.pc = "publishPost", !.i = @ + 1, !.result = NULL,
                        !.error = "", !.outcome = "none"]
         ELSE IdleTick]
  /\ UNCHANGED <<posts, now, crashes, delivery>>

\* The for loop of processScheduledPosts: next post, or the tick ends and
\* the next '*/5 * * * *' firing (or manual run of 'post-publishing') may
\* start a new one.
NextPost(t) ==
  /\ tick[t].pc = "returned"
  /\ tick' = [tick EXCEPT ![t] =
       IF tick[t].i < Len(tick[t].readyPosts)
         THEN [@ EXCEPT !.pc = "publishPost", !.i = @ + 1, !.result = NULL,
                        !.error = "", !.outcome = "none"]
         ELSE IdleTick]
  /\ UNCHANGED <<posts, now, crashes, delivery>>

\* Time passes.
Advance ==
  /\ now < MaxTime
  /\ now' = now + 1
  /\ UNCHANGED <<posts, tick, crashes, delivery>>

\* The process dies and is restarted: every tick in flight is lost, the
\* table stays as it is.  Nothing at start-up looks at rows in 'posting'.
Crash ==
  /\ crashes < MaxCrashes
  /\ \E t \in Ticks : tick[t].pc # "idle"
  /\ crashes' = crashes + 1
  /\ tick' = [t \in Ticks |-> IdleTick]
  /\ UNCHANGED <<posts, now, delivery>>

TickStep(t) ==
  \/ processScheduledPosts(t)
  \/ MarkPosting(t)
  \/ CallCreatePost(t)
  \/ MarkPosted(t)
  \/ MarkFailed(t)
  \/ NextPost(t)

NextPub == (\E t \in Ticks : TickStep(t)) \/ Advance \/ Crash

(***************************************************************************)
(* The articles table (Article)                                            *)
(***************************************************************************)
Urls == 1..NumUrls
Runs == 1..NumRuns         \* the cron trigger and the manual triggers

\* What the sqlite driver puts in error.code when the UNIQUE constraint on
\* articles.url rejects an INSERT: the primary result code or the extended
\* one, depending on the driver.
UniqueViolationCodes == {"SQLITE_CONSTRAINT", "SQLITE_CONSTRAINT_UNIQUE"}

RowsWithUrl(table, url) == {k \in 1..Len(table) : table[k].url = url}

\* Article.findByUrl: SELECT * FROM articles WHERE url = ?
findByUrl(table, url) ==
  IF RowsWithUrl(table, url) = {} THEN NULL
  ELSE table[CHOOSE k \in RowsWithUrl(table, url) : TRUE].id

\* Article.create(articleData): INSERT INTO articles; url is UNIQUE, so the
\* INSERT is rejected when a row with that url exists.  The rejection is
\* answered with findByUrl only when error.code is
\* 'SQLITE_CONSTRAINT_UNIQUE' and is rethrown otherwise.
\* Result: the table, the id resolved to, and whether the call raised.
create(table, url, code) ==
  IF RowsWithUrl(table, url) = {}
    THEN [table |-> Append(table, [id |-> Len(table) + 1, url |-> url]),
          id |-> Len(table) + 1, raised |-> FALSE, existed |-> FALSE]
  ELSE IF code = "SQLITE_CONSTRAINT_UNIQUE"
    THEN [table |-> table, id |-> findByUrl(table, url),
          raised |-> FALSE, existed |-> TRUE]
  ELSE [table |-> table, id |-> NULL, raised |-> TRUE, existed |-> TRUE]

(***************************************************************************)
(* CronJobs.runNewsScraping and its triggers                               *)
(***************************************************************************)
IdleRun == [pc |-> "idle", batch |-> <<>>, i |-> 0, saved |-> <<>>,
            last |-> [url |-> NULL, id |-> NULL, raised |-> FALSE,
                      existed |-> FALSE]]

InitIngest ==
  /\ isProcessing = FALSE
  /\ run = [r \in Runs |-> IdleRun]
  /\ articles = <<>>
  /\ queue = <<>>
  /\ scrapes = 0

RunningPcs == {"scraping", "getRecent", "create", "queueAdd"}

\* Sequences without repetition over the set S.
RECURSIVE Perms(_)
Perms(S) ==
  IF S = {} THEN {<<>>}
  ELSE UNION {{<<x>> \o q : q \in Perms(S \ {x})} : x \in S}

\* runNewsScraping without the test of isProcessing.
runNewsScrapingUnguarded(r) ==
  /\ run[r].pc = "idle"
  /\ scrapes < MaxScrapes
  /\ isProcessing' = TRUE
  /\ run' = [run EXCEPT ![r] = [IdleRun EXCEPT !.pc = "scraping"]]
  /\ scrapes' = scrapes + 1
  /\ UNCHANGED <<articles, queue>>

\* A trigger fires (the '*/30 * * * *' cron callback, or runJobManually
\* ('news-scraping')): runNewsScraping up to its first await.  The test of
\* isProcessing and its assignment run without an await between them.
runNewsScraping(r) ==
  /\ run[r].pc = "idle"
  /\ scrapes < MaxScrapes
  /\ IF isProcessing
       THEN /\ run' = [run EXCEPT ![r].pc = "skipped"]
            /\ UNCHANGED <<isProcessing, scrapes>>
       ELSE /\ isProcessing' = TRUE
            /\ run' = [run EXCEPT ![r] = [IdleRun EXCEPT !.pc = "scraping"]]
            /\ scrapes' = scrapes + 1
  /\ UNCHANGED <<articles, queue>>

\* The skipped trigger's callback has returned.
Skipped(r) ==
  /\ run[r].pc = "skipped"
  /\ run' = [run EXCEPT ![r] = IdleRun]
  /\ UNCHANGED <<isProcessing, articles, queue, scrapes>>

\* The early return and the exception leaving the run without the finally
\* block.
ScrapeLeavesFlag(r) ==
  /\ run[r].pc = "scraping"
  /\ \/ run' = [run EXCEPT ![r] = IdleRun]
     \/ \E filtered \in SUBSET Urls :
          run' = [run EXCEPT ![r].pc = "getRecent",
                             ![r].batch = CHOOSE q \in Perms(filtered) : TRUE]
  /\ UNCHANGED <<isProcessing, articles, queue, scrapes>>

\* await this.scraper.scrapeAllSources(): no articles ends the run (the
\* finally block clears the flag); so does an exception.  Otherwise
\* filterArticles keeps some of them.
Scrape(r) ==
  /\ run[r].pc = "scraping"
  /\ \/ /\ run' = [run EXCEPT ![r] = IdleRun]
        /\ isProcessing' = FALSE
     \/ /\ \E filtered \in SUBSET Urls :
             run' = [run EXCEPT ![r].pc = "getRecent",
                                ![r].batch = CHOOSE q \in Perms(filtered) : TRUE]
        /\ UNCHANGED isProcessing
  /\ UNCHANGED <<articles, queue, scrapes>>

\* await Article.getRecent(24), then removeDuplicates and sortByEngagement:
\* the recent window is some of the stored articles, every candidate with
\* the url of one of them is dropped, and the survivors are put in order.
\* An empty batch runs the loop zero times and ends the run.
GetRecent(r) ==
  /\ run[r].pc = "getRecent"
  /\ \E recent \in SUBSET {articles[k].url : k \in 1..Len(articles)} :
     \E unique \in SUBSET ({run[r].batch[k] : k \in 1..Len(run[r].batch)} \ recent) :
     \E sortedArticles \in Perms(unique) :
       IF sortedArticles = <<>>
         THEN /\ run' = [run EXCEPT ![r] = IdleRun]
              /\ isProcessing' = FALSE
         ELSE /\ run' = [run EXCEPT ![r].pc = "create", ![r].i = 1,
                                    ![r].batch = sortedArticles]
              /\ UNCHANGED isProcessing
  /\ UNCHANGED <<articles, queue, scrapes>>

\* The loop left at the first article that failed.
AdvancedStopsAtFailure(rn) ==
  IF rn.i < Len(rn.batch) /\ ~rn.last.raised
  THEN [rn EXCEPT !.pc = "create", !.i = @ + 1]
  ELSE [IdleRun EXCEPT !.pc = "finished", !.saved = rn.saved, !.last = rn.last]

\* The loop's step to the next article; after the last one the finally
\* block clears isProcessing.
Advanced(rn) ==
  IF rn.i < Len(rn.batch) THEN [rn EXCEPT !.pc = "create", !.i = @ + 1]
  ELSE [IdleRun EXCEPT !.pc = "finished", !.saved = rn.saved, !.last = rn.last]

\* await Article.create(article); savedArticles.push(saved).  An error is
\* caught and logged per article.
SaveArticle(r) ==
  /\ run[r].pc = "create"
  /\ \E code \in UniqueViolationCodes :
       LET res == create(articles, run[r].batch[run[r].i], code)
           rec == [url |-> run[r].batch[run[r].i], id |-> res.id,
                   raised |-> res.raised, existed |-> res.existed]
       IN  /\ articles' = res.table
           /\ IF res.raised
                THEN run' = [run EXCEPT ![r] = Advanced([@ EXCEPT !.last = rec])]
                ELSE run' = [run EXCEPT ![r].pc = "queueAdd", ![r].last = rec,
                                        ![r].saved = Append(@, res.id)]
  /\ UNCHANGED <<isProcessing, queue, scrapes>>

\* await ProcessingQueue.add(saved.id, 1); a rejected INSERT is caught and
\* logged per article.
QueueAdd(r) ==
  /\ run[r].pc = "queueAdd"
  /\ \/ queue' = Append(queue, run[r].last.id)
     \/ UNCHANGED queue
  /\ run' = [run EXCEPT ![r] = Advanced(@)]
  /\ UNCHANGED <<isProcessing, articles, scrapes>>

\* finally { this.isProcessing = false }
Finish(r) ==
  /\ run[r].pc = "finished"
  /\ isProcessing' = FALSE
  /\ run' = [run EXCEPT ![r] = IdleRun]
  /\ UNCHANGED <<articles, queue, scrapes>>

RunStep(r) ==
  \/ runNewsScraping(r)
  \/ Skipped(r)
  \/ Scrape(r)
  \/ GetRecent(r)
  \/ SaveArticle(r)
  \/ QueueAdd(r)
  \/ Finish(r)

NextIngest == \E r \in Runs : RunStep(r)

(***************************************************************************)
(* CronJobs.runPostCreation: the post-creation run                         *)
(***************************************************************************)
ArticleIds == 1..NumArticles
CreationRuns == 1..NumCreationRuns
OldArticle == 0            \* an article processed before the runs explored

\* Article.getUnprocessed(5): the rows with is_processed = 0, best first
\* (the articles are numbered in the order of the ORDER BY clause).
getUnprocessed(flags) ==
  Ordered([a \in ArticleIds |-> [scheduled_time |-> a]],
          {a \in ArticleIds : ~flags[a]})

\* Article.markAsProcessed(id): UPDATE articles SET is_processed = 1
\* WHERE id = ?
markAsProcessed(flags, id) == [flags EXCEPT ![id] = TRUE]

\* FacebookPost.create with a status other than the default.
FacebookPostCreatePosted(table, article_id, sched) ==
  Append(table, [article_id |-> article_id] @@
                [NewPost(sched) EXCEPT !.status = "posted"])

\* FacebookPost.create({article_id, post_text, scheduled_time}): one INSERT;
\* facebook_post_id defaults to null and status to 'pending'.
FacebookPostCreate(table, article_id, sched) ==
  Append(table, [article_id |-> article_id] @@ NewPost(sched))

\* A row of facebook_posts the publishing tick has already worked on.
PublishedRow(status) ==
  [article_id |-> OldArticle] @@
  [NewPost(0) EXCEPT !.status = status,
      !.facebook_post_id = IF status = "posted" THEN 1 ELSE NULL,
      !.posted_time = IF status = "posted" THEN 0 ELSE NoTime,
      !.error_message = IF status = "failed" THEN "error" ELSE ""]

IdleCreation ==
  [pc |-> "idle", article |-> NULL, valid |-> TRUE, queued |-> FALSE]

InitCreate ==
  /\ processed = [a \in ArticleIds |-> FALSE]
  /\ fbPosts \in {<<>>} \cup {<<PublishedRow(s)>> :
                                s \in {"pending", "posting", "posted", "failed"}}
  /\ creation = [c \in CreationRuns |-> IdleCreation]
  /\ discarded = {}
  /\ creations = 0

\* A trigger fires (the morning, afternoon or evening cron callback, or
\* runJobManually): runPostCreation up to the result of getUnprocessed.
\* With no unprocessed article the run returns at once.
runPostCreation(c) ==
  /\ creation[c].pc = "idle"
  /\ creations < MaxCreations
  /\ creations' = creations + 1
  /\ LET found == getUnprocessed(processed)
     IN  IF found = <<>>
           THEN creation' = [creation EXCEPT ![c] = IdleCreation]
           ELSE creation' = [creation EXCEPT ![c] =
                   [IdleCreation EXCEPT !.pc = "generate", !.article = found[1]]]
  /\ UNCHANGED <<processed, fbPosts, discarded>>

\* generatePost(article) and validatePost(postContent.text).  The composed
\* text depends on the article and on the call-to-action drawn at random,
\* so two runs on one article may differ in validity.
GeneratePost(c) ==
  /\ creation[c].pc = "generate"
  /\ \E isValid \in BOOLEAN :
       creation' = [creation EXCEPT ![c].valid = isValid,
                      ![c].pc = IF isValid THEN "schedule" ELSE "markAsProcessed"]
  /\ UNCHANGED <<processed, fbPosts, discarded, creations>>

\* The run has ended (returned or raised); what it did stays on record
\* until the run's next trigger.
EndCreation(rn) ==
  [IdleCreation EXCEPT !.article = rn.article, !.valid = rn.valid,
                       !.queued = rn.queued]

\* await this.postManager.schedulePost(article, postContent, postTime): the
\* INSERT goes through, or is rejected and the run raises.
SchedulePost(c) ==
  /\ creation[c].pc = "schedule"
  /\ \/ /\ fbPosts' = FacebookPostCreate(fbPosts, creation[c].article, 0)
        /\ creation' = [creation EXCEPT ![c].pc = "markAsProcessed",
                                        ![c].queued = TRUE]
     \/ /\ creation' = [creation EXCEPT ![c] = EndCreation(@)]
        /\ UNCHANGED fbPosts
  /\ UNCHANGED <<processed, discarded, creations>>

\* await Article.markAsProcessed(article.id), the last statement of both
\* branches: the UPDATE goes through, or is rejected and the run raises.
MarkAsProcessed(c) ==
  /\ creation[c].pc = "markAsProcessed"
  /\ \/ /\ processed' = markAsProcessed(processed, creation[c].article)
        /\ discarded' = IF creation[c].valid THEN discarded
                        ELSE discarded \cup {creation[c].article}
     \/ UNCHANGED <<processed, discarded>>
  /\ creation' = [creation EXCEPT ![c] = EndCreation(@)]
  /\ UNCHANGED <<fbPosts, creations>>

CreationStep(c) ==
  \/ runPostCreation(c)
  \/ GeneratePost(c)
  \/ SchedulePost(c)
  \/ MarkAsProcessed(c)

NextCreate == \E c \in CreationRuns : CreationStep(c)

(***************************************************************************)
(* DuplicateDetector                                                       *)
(***************************************************************************)
\* A text is the set of its words of more than three letters; the empty
\* text has none.  A url is its path (a sequence of segments) and what
\* normalizeUrl strips: upper-case letters, a trailing slash, tracking
\* parameters and a fragment.  Similarities are fractions <<num, den>>.
Url(path, decorated) ==
  [path |-> path, upper |-> decorated, slash |-> decorated,
   tracking |-> decorated, hash |-> decorated]

NewArticle(title, content, url, score, date) ==
  [title |-> title, content |-> content, url |-> url,
   engagement_score |-> score, published_date |-> date]

\* The articles the feeds may deliver.  1, 2, 3 share a title and their
\* contents overlap in a chain (1 with 2, 2 with 3, not 1 with 3); 4 is 1
\* again behind a decorated url; 5 has the text and score of 1 under
\* another url and a later date; 6 is another story under the url of 1;
\* 7 shares nothing with the others.
Corpus ==
  << NewArticle({1}, {1, 2, 3},    Url(<<1>>, FALSE), 1, 1),
     NewArticle({1}, {1, 2, 3, 4}, Url(<<2>>, FALSE), 2, 2),
     NewArticle({1}, {2, 3, 4},    Url(<<3>>, FALSE), 3, 3),
     NewArticle({1}, {1, 2, 3},    Url(<<1>>, TRUE),  2, 2),
     NewArticle({1}, {1, 2, 3},    Url(<<4>>, FALSE), 1, 2),
     NewArticle({2}, {5},          Url(<<1>>, FALSE), 3, 1),
     NewArticle({3}, {6},          Url(<<5>>, FALSE), 2, 3) >>

\* normalizeUrl(url): tracking parameters deleted, fragment removed,
\* trailing slash removed, the whole string lower-cased.
normalizeUrl(url) ==
  [url EXCEPT !.upper = FALSE, !.slash = FALSE, !.tracking = FALSE,
              !.hash = FALSE]

\* calculateTextSimilarity(textA, textB): Jaccard similarity of the word
\* sets, 0 when either text is empty.
calculateTextSimilarity(textA, textB) ==
  IF textA = {} \/ textB = {} THEN <<0, 1>>
  ELSE <<Cardinality(textA \cap textB), Cardinality(textA \cup textB)>>

IsPrefix(p, q) == Len(p) <= Len(q) /\ SubSeq(q, 1, Len(p)) = p

\* The words of the pathname of the url as given (not normalized).
PathWords(url) == {<<url.path[k], url.upper>> : k \in 1..Len(url.path)}

\* calculateUrlSimilarity(urlA, urlB): 1 for equal normalized urls, 0.8
\* when one normalized url contains the other, else half the similarity
\* of the path words.
calculateUrlSimilarity(urlA, urlB) ==
  LET normalizedA == normalizeUrl(urlA)
      normalizedB == normalizeUrl(urlB)
      pathSimilarity == calculateTextSimilarity(PathWords(urlA), PathWords(urlB))
  IN  IF normalizedA = normalizedB THEN <<1, 1>>
      ELSE IF IsPrefix(normalizedB.path, normalizedA.path)
              \/ IsPrefix(normalizedA.path, normalizedB.path) THEN <<8, 10>>
      ELSE <<pathSimilarity[1], 2 * pathSimilarity[2]>>

\* calculateSimilarity(articleA, articleB): the weighted sum of the three
\* similarities, in hundredths, as a fraction.
calculateSimilarity(articleA, articleB) ==
  LET titleSim == calculateTextSimilarity(articleA.title, articleB.title)
      contentSim == calculateTextSimilarity(articleA.content, articleB.content)
      urlSim == calculateUrlSimilarity(articleA.url, articleB.url)
  IN  << TitleSimilarityWeight * titleSim[1] * contentSim[2] * urlSim[2]
           + ContentSimilarityWeight * contentSim[1] * titleSim[2] * urlSim[2]
           + UrlSimilarityWeight * urlSim[1] * titleSim[2] * contentSim[2],
         titleSim[2] * contentSim[2] * urlSim[2] >>

\* similarity >= this.similarityThreshold
Similar(articleA, articleB) ==
  LET similarity == calculateSimilarity(articleA, articleB)
  IN  similarity[1] >= SimilarityThreshold * similarity[2]

\* The first pass without the url map of the new articles.
UrlPassExistingOnly(arts, existingArticles) ==
  {index \in 1..Len(arts) :
     \E e \in 1..Len(existingArticles) :
       normalizeUrl(existingArticles[e].url) = normalizeUrl(arts[index].url)}

\* First pass of removeDuplicates: the indexes whose normalized url is
\* that of an earlier new article or of an existing article.
UrlPass(arts, existingArticles) ==
  {index \in 1..Len(arts) :
     \/ \E k \in 1..(index - 1) :
          normalizeUrl(arts[k].url) = normalizeUrl(arts[index].url)
     \/ \E e \in 1..Len(existingArticles) :
          normalizeUrl(existingArticles[e].url) = normalizeUrl(arts[index].url)}

\* The inner loop left at the first similar pair, whichever article of the
\* pair joined duplicates.
RECURSIVE CompareWithNewBreaks(_, _, _, _)
CompareWithNewBreaks(arts, i, j, duplicates) ==
  IF j > Len(arts) THEN duplicates
  ELSE IF j \in duplicates THEN CompareWithNewBreaks(arts, i, j + 1, duplicates)
  ELSE IF Similar(arts[i], arts[j])
    THEN IF arts[i].engagement_score >= arts[j].engagement_score
           THEN duplicates \cup {j}
           ELSE duplicates \cup {i}
  ELSE CompareWithNewBreaks(arts, i, j + 1, duplicates)

\* The inner loop of the second pass, from j on: the article of lower
\* engagement_score of a similar pair joins duplicates, the later one when
\* the scores are equal; the loop breaks once article i has joined.
RECURSIVE CompareWithNew(_, _, _, _)
CompareWithNew(arts, i, j, duplicates) ==
  IF j > Len(arts) THEN duplicates
  ELSE IF j \in duplicates THEN CompareWithNew(arts, i, j + 1, duplicates)
  ELSE IF Similar(arts[i], arts[j])
    THEN IF arts[i].engagement_score >= arts[j].engagement_score
           THEN CompareWithNew(arts, i, j + 1, duplicates \cup {j})
           ELSE duplicates \cup {i}
  ELSE CompareWithNew(arts, i, j + 1, duplicates)

\* The second pass without the comparison with the existing articles.
RECURSIVE SimilarityPassNewOnly(_, _, _, _)
SimilarityPassNewOnly(arts, existingArticles, i, duplicates) ==
  IF i > Len(arts) THEN duplicates
  ELSE IF i \in duplicates
    THEN SimilarityPassNewOnly(arts, existingArticles, i + 1, duplicates)
  ELSE SimilarityPassNewOnly(arts, existingArticles, i + 1,
                             CompareWithNew(arts, i, i + 1, duplicates))

\* The outer loop of the second pass, from i on.
RECURSIVE SimilarityPass(_, _, _, _)
SimilarityPass(arts, existingArticles, i, duplicates) ==
  IF i > Len(arts) THEN duplicates
  ELSE IF i \in duplicates
    THEN SimilarityPass(arts, existingArticles, i + 1, duplicates)
  ELSE LET afterNew == CompareWithNew(arts, i, i + 1, duplicates)
           afterExisting ==
             IF i \notin afterNew
                /\ \E e \in 1..Len(existingArticles) :
                     Similar(arts[i], existingArticles[e])
               THEN afterNew \cup {i} ELSE afterNew
       IN  SimilarityPass(arts, existingArticles, i + 1, afterExisting)

\* The subsequence of arts at the indexes outside dropped.
RECURSIVE Filter(_, _, _)
Filter(arts, dropped, index) ==
  IF index > Len(arts) THEN <<>>
  ELSE (IF index \in dropped THEN <<>> ELSE <<arts[index]>>)
       \o Filter(arts, dropped, index + 1)

\* The duplicates set removeDuplicates ends with.
Duplicates(arts, existingArticles) ==
  SimilarityPass(arts, existingArticles, 1, UrlPass(arts, existingArticles))

\* removeDuplicates(articles, existingArticles)
removeDuplicates(arts, existingArticles) ==
  Filter(arts, Duplicates(arts, existingArticles), 1)

\* groupSimilarArticles(articles), from index on: an article not yet in a
\* group starts one and takes every later ungrouped article similar to it.
RECURSIVE groupSimilarArticles(_, _, _)
groupSimilarArticles(arts, index, grouped) ==
  IF index > Len(arts) THEN <<>>
  ELSE IF index \in grouped THEN groupSimilarArticles(arts, index + 1, grouped)
  ELSE LET members == {index} \cup
                      {otherIndex \in (index + 1)..Len(arts) :
                         /\ otherIndex \notin grouped
                         /\ Similar(arts[index], arts[otherIndex])}
       IN  <<Filter(arts, (1..Len(arts)) \ members, 1)>>
           \o groupSimilarArticles(arts, index + 1, grouped \cup members)

\* The comparator of selectBestFromGroup: a sorts before b.
Better(a, b) ==
  \/ a.engagement_score > b.engagement_score
  \/ /\ a.engagement_score = b.engagement_score
     /\ a.published_date > b.published_date

\* selectBestFromGroup(articleGroup): the first element after a stable
\* sort by engagement_score, then published_date, both descending.
selectBestFromGroup(articleGroup) ==
  LET first == CHOOSE k \in 1..Len(articleGroup) :
                 /\ \A m \in 1..Len(articleGroup) :
                      ~Better(articleGroup[m], articleGroup[k])
                 /\ \A m \in 1..(k - 1) :
                      Better(articleGroup[k], articleGroup[m])
  IN  articleGroup[first]

\* advancedDuplicateRemoval(articles, existingArticles)
advancedDuplicateRemoval(arts, existingArticles) ==
  LET noDuplicates == removeDuplicates(arts, existingArticles)
      groups == groupSimilarArticles(noDuplicates, 1, {})
  IN  [g \in 1..Len(groups) |-> selectBestFromGroup(groups[g])]

\* The articles at the corpus positions listed.
Articles(list) == [k \in 1..Len(list) |-> Corpus[list[k]]]

\* The lists of distinct corpus positions of at most n elements.
Lists(n) ==
  UNION {Perms(S) : S \in {T \in SUBSET (1..Len(Corpus)) : Cardinality(T) <= n}}

\* A batch of new candidates and the recent window are handed to the
\* DuplicateDetector.
InitDedupe ==
  \E list \in Lists(MaxCandidates), recent \in Lists(MaxRecent) :
    dd = [pc |-> "called", articles |-> Articles(list),
          existingArticles |-> Articles(recent), result |-> <<>>]

\* const unique = this.duplicateDetector.removeDuplicates(...)
RemoveDuplicates ==
  /\ dd.pc = "called"
  /\ dd' = [dd EXCEPT !.pc = "removeDuplicates",
              !.result = removeDuplicates(dd.articles, dd.existingArticles)]

\* advancedDuplicateRemoval(articles, existingArticles)
AdvancedDuplicateRemoval ==
  /\ dd.pc = "called"
  /\ dd' = [dd EXCEPT !.pc = "advancedDuplicateRemoval",
              !.result = advancedDuplicateRemoval(dd.articles, dd.existingArticles)]

NextDedupe == RemoveDuplicates \/ AdvancedDuplicateRemoval

(***************************************************************************)
(* ContentFilter.filterArticles                                            *)
(***************************************************************************)
\* A scraped item: each of title, url and content is missing (undefined or
\* the empty string), a string, or a truthy value that is not a string;
\* text says how far its wording gets: "irrelevant" fails the word-count,
\* spam or keyword checks, "poor" fails hasGoodContentQuality, "good"
\* passes both.
FieldKinds == {"missing", "string", "other"}

Items ==
  [title : FieldKinds, url : FieldKinds, content : FieldKinds,
   text : {"irrelevant", "poor", "good"}]

\* isValidArticle(article): "true", "false", or "throws" when a string
\* method is called on a value that is not a string (getWordCount calls
\* text.trim, hasGoodContentQuality calls title.match); a url that does not
\* parse is reported as blocked.
isValidArticle(article) ==
  IF "missing" \in {article.title, article.url, article.content} THEN "false"
  ELSE IF article.content = "other" THEN "throws"
  ELSE IF article.text = "irrelevant" THEN "false"
  ELSE IF article.url = "other" THEN "false"
  ELSE IF article.title = "other" THEN "throws"
  ELSE IF article.text = "poor" THEN "false"
  ELSE "true"

\* filterArticles with the callback's try/catch left out: the first
\* exception ends the call.
RECURSIVE filterArticlesUncaught(_, _, _)
filterArticlesUncaught(arts, index, acc) ==
  IF index > Len(arts) THEN acc
  ELSE LET verdict == isValidArticle(arts[index])
           seen == [acc EXCEPT !.evaluated = @ + 1]
       IN  IF verdict = "throws" THEN [seen EXCEPT !.raised = TRUE]
           ELSE filterArticlesUncaught(arts, index + 1,
                  IF verdict = "true"
                    THEN [seen EXCEPT !.filtered = Append(@, arts[index])]
                    ELSE seen)

\* filterArticles(articles), from index on: articles.filter with a callback
\* that returns isValidArticle(article) and, when that throws, logs the
\* title and returns false.
RECURSIVE filterArticles(_, _, _)
filterArticles(arts, index, acc) ==
  IF index > Len(arts) THEN acc
  ELSE LET verdict == isValidArticle(arts[index])
           seen == [acc EXCEPT !.evaluated = @ + 1]
       IN  filterArticles(arts, index + 1,
             IF verdict = "true"
               THEN [seen EXCEPT !.filtered = Append(@, arts[index])]
               ELSE seen)

NoFiltering == [filtered |-> <<>>, evaluated |-> 0, raised |-> FALSE]

Batches == UNION {[1..n -> Items] : n \in 0..MaxBatch}

InitFilter ==
  \E batch \in Batches :
    cf = [pc |-> "called", articles |-> batch, out |-> NoFiltering]

\* const filteredArticles = this.contentFilter.filterArticles(rawArticles)
FilterArticles ==
  /\ cf.pc = "called"
  /\ cf' = [cf EXCEPT !.pc = "returned",
              !.out = filterArticles(cf.articles, 1, NoFiltering)]

(***************************************************************************)
(* PostGenerator.assemblePost                                              *)
(***************************************************************************)
\* A text is the sequence of the lengths of its lines; the lines carry no
\* blanks at their ends.
RECURSIVE TextLength(_)
TextLength(lines) ==
  IF Len(lines) = 1 THEN lines[1]
  ELSE lines[1] + 1 + TextLength(Tail(lines))

\* text.trim(): the empty lines at both ends go.
RECURSIVE Trim(_)
Trim(lines) ==
  IF Len(lines) = 1 THEN lines
  ELSE IF lines[1] = 0 THEN Trim(Tail(lines))
  ELSE IF lines[Len(lines)] = 0 THEN Trim(SubSeq(lines, 1, Len(lines) - 1))
  ELSE lines

\* text.substring(0, n); a negative n counts as 0.
RECURSIVE Substring(_, _)
Substring(lines, n) ==
  IF n <= 0 THEN <<0>>
  ELSE IF Len(lines) = 1 \/ n <= lines[1]
    THEN <<IF n <= lines[1] THEN n ELSE lines[1]>>
  ELSE <<lines[1]>> \o Substring(Tail(lines), n - lines[1] - 1)

\* text + '...'
Ellipsis(lines) == [lines EXCEPT ![Len(lines)] = @ + 3]

\* createPostText(article): `${headline}\n\n${summary}`
createPostText(headline, summary) == <<headline, 0, summary>>

\* assemblePost(postText, hashtags, callToAction), hashtags given as the
\* length of hashtags.join(' ').
assemblePost(postText, hashtags, callToAction) ==
  LET fullPost == postText \o <<0, callToAction>> \o <<0, hashtags>>
  IN  IF TextLength(fullPost) > MaxPostLength
        THEN LET lines == fullPost
                 headline == lines[1]
                 hashtagLine == lines[Len(lines)]
                 availableLength == MaxPostLength - headline - hashtagLine - 10
                 region == Trim(SubSeq(lines, 2, Len(lines) - 2))
                 summary == IF TextLength(region) > availableLength
                              THEN Ellipsis(Substring(region, availableLength - 3))
                              ELSE region
             IN  Trim(<<headline, 0>> \o summary
                      \o <<0, callToAction, 0, hashtagLine>>)
        ELSE Trim(fullPost)

\* The lengths of the texts generateCallToAction chooses from.
CallToActionLengths == {34, 39, 41, 42, 43, 44, 45, 47, 49, 50, 52}

\* The lengths of the hashtag lines selectHashtags can give: the two core
\* tags alone, with a third tag, and eight tags.
HashtagLineLengths == {20, 36, 101}

\* Lengths of headlines (none for an article without a title) and of
\* summaries, up to their limits.
HeadlineLengths == {0, 40, 70, HeadlineLimit}
SummaryLengths == {20, 70, 110, SummaryLimit}

InitCompose ==
  \E headline \in HeadlineLengths, summary \in SummaryLengths,
     callToAction \in CallToActionLengths, hashtags \in HashtagLineLengths :
    gp = [pc |-> "generatePost", headline |-> headline, summary |-> summary,
          callToAction |-> callToAction, hashtags |-> hashtags,
          fullText |-> <<0>>]

\* const fullText = this.assemblePost(postText, hashtags, callToAction)
AssemblePost ==
  /\ gp.pc = "generatePost"
  /\ gp' = [gp EXCEPT !.pc = "assembled",
              !.fullText = assemblePost(createPostText(gp.headline, gp.summary),
                                        gp.hashtags, gp.callToAction)]

(***************************************************************************)
(* PostManager.updateEngagementMetrics: the metrics tick                   *)
(***************************************************************************)
\* A row as the publishing tick may have left it; engagement_metrics holds
\* the number of the tick that stored it, NULL before the first.
MetricsRow(status) ==
  [status |-> status,
   facebook_post_id |-> IF status = "posted" THEN 1 ELSE NULL,
   engagement_metrics |-> NULL]

\* SELECT * FROM facebook_posts WHERE status = 'posted' AND
\* facebook_post_id IS NOT NULL (posted within the window), in rowid order.
getPostedPosts(table) ==
  Ordered([p \in PostIds |-> [scheduled_time |-> p]],
          {p \in PostIds : /\ table[p].status = "posted"
                           /\ table[p].facebook_post_id # NULL})

IdleMetrics ==
  [pc |-> "idle", recentPosts |-> <<>>, i |-> 0, updated |-> 0,
   metrics |-> NULL, attempted |-> [p \in PostIds |-> 0], failed |-> {}]

InitMetrics ==
  /\ published \in [PostIds -> {MetricsRow(s) :
                                  s \in {"pending", "posting", "posted", "failed"}}]
  /\ mt = IdleMetrics
  /\ metricsTicks = 0

\* The hourly cron callback (or runJobManually('metrics-update')) calls
\* updateEngagementMetrics: the query raises (the tick rethrows and
\* runMetricsUpdate logs it), finds nothing, or gives the batch.
updateEngagementMetrics ==
  /\ mt.pc \in {"idle", "returned", "threw"}
  /\ metricsTicks < MaxMetricsTicks
  /\ metricsTicks' = metricsTicks + 1
  /\ \/ mt' = [IdleMetrics EXCEPT !.pc = "threw"]
     \/ LET recentPosts == getPostedPosts(published)
        IN  mt' = IF recentPosts = <<>>
                    THEN [IdleMetrics EXCEPT !.pc = "returned"]
                    ELSE [IdleMetrics EXCEPT !.pc = "getPostMetrics",
                                             !.recentPosts = recentPosts, !.i = 1]
  /\ UNCHANGED published

\* const metrics = await this.api.getPostMetrics(post.facebook_post_id):
\* the metrics, or null when the request failed (getPostMetrics catches the
\* error itself).  Without metrics nothing is stored.
GetPostMetrics ==
  /\ mt.pc = "getPostMetrics"
  /\ LET post == mt.recentPosts[mt.i]
         seen == [mt EXCEPT !.attempted[post] = @ + 1]
     IN  \/ mt' = [seen EXCEPT !.pc = "updateStatus", !.metrics = metricsTicks]
         \/ mt' = [seen EXCEPT !.pc = "delay", !.metrics = NULL,
                               !.failed = @ \cup {post}]
  /\ UNCHANGED <<published, metricsTicks>>

\* The store's rejection of the metrics update ends the tick.
StoreMetricsAborts ==
  /\ mt.pc = "updateStatus"
  /\ LET post == mt.recentPosts[mt.i]
     IN  \/ /\ published' = [published EXCEPT ![post].status = "posted",
                                       ![post].engagement_metrics = mt.metrics]
            /\ mt' = [mt EXCEPT !.pc = "delay", !.updated = @ + 1]
         \/ /\ mt' = [mt EXCEPT !.pc = "threw", !.failed = @ \cup {post}]
            /\ UNCHANGED published
  /\ UNCHANGED metricsTicks

\* await FacebookPost.updateStatus(post.id, 'posted', {engagement_metrics});
\* updated++.  A rejected update is caught and logged for this post.
StoreMetrics ==
  /\ mt.pc = "updateStatus"
  /\ LET post == mt.recentPosts[mt.i]
     IN  \/ /\ published' = [published EXCEPT ![post].status = "posted",
                                       ![post].engagement_metrics = mt.metrics]
            /\ mt' = [mt EXCEPT !.pc = "delay", !.updated = @ + 1]
         \/ /\ mt' = [mt EXCEPT !.pc = "delay", !.failed = @ \cup {post}]
            /\ UNCHANGED published
  /\ UNCHANGED metricsTicks

\* The one-second delay after each post, then the next post or the return
\* of {updated, duration}.
MetricsDelay ==
  /\ mt.pc = "delay"
  /\ mt' = IF mt.i < Len(mt.recentPosts)
             THEN [mt EXCEPT !.pc = "getPostMetrics", !.i = @ + 1]
             ELSE [mt EXCEPT !.pc = "returned"]
  /\ UNCHANGED <<published, metricsTicks>>

NextMetrics ==
  \/ updateEngagementMetrics
  \/ GetPostMetrics
  \/ StoreMetrics
  \/ MetricsDelay

(***************************************************************************)
(* Scheduling: CronJobs.calculatePostTime                                  *)
(***************************************************************************)
\* The clock counts units of 30 seconds, so that an instant may lie between
\* two whole minutes; local time without daylight-saving shifts.
Minute == 2
Hour == 60 * Minute
Day == 24 * Hour

TimeSlots == {"morning", "afternoon", "evening", "other"}
SlotHour == [morning |-> 8, afternoon |-> 13, evening |-> 18]
RandomMinutes == 0..29     \* Math.floor(Math.random() * 30)

\* The times of day at which a run may be started, and the instants of the
\* days explored.
ClockTimes == {7 * Hour, 8 * Hour + 10 * Minute + 1, 13 * Hour + 29 * Minute,
               23 * Hour + 30 * Minute + 1}
Instants == {d * Day + c : d \in 0..MaxDay, c \in ClockTimes}

DayOf(t) == t \div Day
HourOf(t) == (t % Day) \div Hour
MinuteOf(t) == (t % Hour) \div Minute

\* Date.setHours(h, m, 0, 0): the same day at h:m:00.000.
setHours(t, h, m) == DayOf(t) * Day + h * Hour + m * Minute

\* calculatePostTime without the roll to the next day.
calculatePostTimeToday(at, timeSlot, randomMinutes) ==
  IF timeSlot \in DOMAIN SlotHour
  THEN setHours(at, SlotHour[timeSlot], randomMinutes)
  ELSE at + Hour

calculatePostTime(at, timeSlot, randomMinutes) ==
  LET postTime == IF timeSlot \in DOMAIN SlotHour
                  THEN setHours(at, SlotHour[timeSlot], randomMinutes)
                  ELSE at + Hour
  IN  IF postTime <= at THEN postTime + Day ELSE postTime

\* sch.now is the clock; the other fields are the last run that reached
\* its scheduling step (of sch.runs so far): its slot, the instant and jitter of its call, the
\* time it handed to schedulePost, and the time the run of the same slot
\* before it handed over.
SchIdle ==
  sch = [now |-> 7 * Hour, pc |-> "idle", timeSlot |-> "other",
         randomMinutes |-> 0, at |-> 0, postTime |-> NoTime,
         previous |-> NoTime, runs |-> 0]

InitSchedule ==
  \E t \in {i \in Instants : DayOf(i) = 0} :
    sch = [now |-> t, pc |-> "idle", timeSlot |-> "other",
           randomMinutes |-> 0, at |-> 0, postTime |-> NoTime,
           previous |-> NoTime, runs |-> 0]

\* A post-creation run of the slot reaches lines 561-564.
SchedulePostAt(timeSlot, randomMinutes) ==
  /\ sch.runs < MaxSlotRuns
  /\ sch' = [sch EXCEPT
            !.pc = "scheduled",
            !.runs = @ + 1,
            !.timeSlot = timeSlot,
            !.randomMinutes = randomMinutes,
            !.at = sch.now,
            !.postTime = calculatePostTime(sch.now, timeSlot, randomMinutes),
            !.previous = IF sch.pc = "scheduled" /\ sch.timeSlot = timeSlot
                         THEN sch.postTime ELSE NoTime]

\* Time passes before a run.
Elapse ==
  /\ sch.runs < MaxSlotRuns
  /\ \E t \in Instants : t > sch.now /\ sch' = [sch EXCEPT !.now = t]

NextSchedule ==
  \/ \E timeSlot \in TimeSlots, randomMinutes \in RandomMinutes :
       SchedulePostAt(timeSlot, randomMinutes)
  \/ Elapse

(***************************************************************************)
(* Cleanup: CronJobs.runCleanup                                            *)
(***************************************************************************)
\* Rows of the three tables the cleanup tick names. created_at is a day;
\* state is is_processed for an article and status for the others.
Tables == {"articles", "processing_queue", "facebook_posts"}
RowStates ==
  [articles |-> {"0", "1"},
   processing_queue |-> {"pending", "processing", "completed", "failed"},
   facebook_posts |-> {"pending", "posting", "posted", "failed"}]
CleanupDay == 31           \* the day of the cleanup tick
CreatedDays == {0, 1, 2}   \* 31, 30 and 29 days before it
CleanupRows ==
  UNION {[table : {tb}, created_at : CreatedDays, state : RowStates[tb]] :
           tb \in Tables}
RowIds == 1..NumRows

\* The WHERE clauses of the three DELETE statements.
DeleteWhere ==
  [articles |-> "1", processing_queue |-> "completed",
   facebook_posts |-> "failed"]
Deletes(row, thirtyDaysAgo) ==
  row.created_at < thirtyDaysAgo /\ row.state = DeleteWhere[row.table]

\* The module of CronJobs requires node-cron, config, logger, the scraper,
\* the processors, PostManager and the models; it never binds the name db
\* that runCleanup uses.
dbIsBound == FALSE

\* runCleanup: the rows it deletes and whether its catch block ran. The
\* first db.run raises a ReferenceError when db is unbound.
runCleanup(rows, today) ==
  LET thirtyDaysAgo == today - RetentionDays
  IN  IF dbIsBound
      THEN [deleted |-> {id \in RowIds : Deletes(rows[id], thirtyDaysAgo)},
            caught |-> FALSE]
      ELSE [deleted |-> {}, caught |-> TRUE]

ClnIdle ==
  cl = [pc |-> "idle",
        rows |-> [id \in RowIds |->
                    [table |-> "articles", created_at |-> 2, state |-> "0"]],
        deleted |-> {}, caught |-> FALSE]

InitCleanup ==
  \E rows \in [RowIds -> CleanupRows] :
    cl = [pc |-> "idle", rows |-> rows, deleted |-> {}, caught |-> FALSE]

RunCleanup ==
  /\ cl.pc = "idle"
  /\ LET r == runCleanup(cl.rows, CleanupDay)
     IN  cl' = [cl EXCEPT !.pc = "done", !.deleted = r.deleted,
                          !.caught = r.caught]

(***************************************************************************)
(* Ranking: ContentFilter.sortByEngagement                                 *)
(***************************************************************************)
\* An article as the ranking reads it: how many high-value keywords,
\* industry terms and breaking-news indicators its title and its
\* summary-and-content hold, its published_date in hours, whether it has an
\* image_url, and its engagement_score in hundredths. Scores are in
\* thousandths.
Ranked(id, titleHigh, contentHigh, titleTerms, contentTerms, breaking,
       published_date, image_url, engagement_score) ==
  [id |-> id, titleHigh |-> titleHigh, contentHigh |-> contentHigh,
   titleTerms |-> titleTerms, contentTerms |-> contentTerms,
   breaking |-> breaking, published_date |-> published_date,
   image_url |-> image_url, engagement_score |-> engagement_score]

SortNow == 100             \* Date.now(), in hours

SortCorpus ==
  <<Ranked(1, 0, 0, 0, 0, 1, 100, TRUE, 80),    \* capped at 1, engagement .8
    Ranked(2, 2, 2, 0, 0, 0, 100, FALSE, 90),   \* capped at 1, engagement .9
    Ranked(3, 0, 0, 0, 0, 0, 50, FALSE, 50),    \* .6, engagement .5, older
    Ranked(4, 0, 0, 0, 0, 0, 60, FALSE, 50),    \* .6, engagement .5, newer
    Ranked(5, 0, 0, 0, 0, 0, 95, FALSE, 0),     \* .6 by recency, engagement 0
    Ranked(6, 0, 0, 0, 1, 0, 10, FALSE, 40)>>   \* .6, engagement .4

Max(a, b) == IF a >= b THEN a ELSE b
Min(a, b) == IF a <= b THEN a ELSE b

calculateRelevanceScore(article) ==
  LET hoursOld == SortNow - article.published_date
      score == 500
               + article.titleHigh * 100 + article.contentHigh * 50
               + article.titleTerms * 50 + article.contentTerms * 20
               + article.breaking * 150
               + (IF hoursOld < 1 THEN 200
                  ELSE IF hoursOld < 6 THEN 100
                  ELSE IF hoursOld < 12 THEN 50 ELSE 0)
               + (IF article.image_url THEN 100 ELSE 0)
               + article.engagement_score * 2
  IN  Min(1000, Max(0, score))

\* The comparator with the relevance score alone.
compareByRelevance(a, b) == b.relevance_score - a.relevance_score

\* The comparator of the sort: negative when a comes first.
compare(a, b) ==
  IF b.relevance_score # a.relevance_score
  THEN b.relevance_score - a.relevance_score
  ELSE IF b.engagement_score # a.engagement_score
       THEN b.engagement_score - a.engagement_score
       ELSE b.published_date - a.published_date

\* Array.prototype.sort is stable: x goes behind every element that does
\* not compare after it.
RECURSIVE InsertSorted(_, _)
InsertSorted(x, sorted) ==
  IF sorted = <<>> THEN <<x>>
  ELSE IF compare(Head(sorted), x) <= 0
       THEN <<Head(sorted)>> \o InsertSorted(x, Tail(sorted))
       ELSE <<x>> \o sorted

RECURSIVE SortWith(_, _)
SortWith(list, sorted) ==
  IF list = <<>> THEN sorted
  ELSE SortWith(Tail(list), InsertSorted(Head(list), sorted))

sortByEngagement(list) ==
  SortWith([k \in 1..Len(list) |->
              [relevance_score |-> calculateRelevanceScore(list[k])] @@ list[k]],
           <<>>)

\* The batches: every list of distinct articles of the corpus.
SortBatches ==
  UNION {{l \in [1..n -> 1..Len(SortCorpus)] :
            \A i, j \in 1..n : i # j => l[i] # l[j]} : n \in 0..MaxSorted}

SrtIdle == so = [pc |-> "called", articles |-> <<>>, sorted |-> <<>>]

InitSort ==
  \E l \in SortBatches :
    so = [pc |-> "called",
          articles |-> [k \in 1..Len(l) |-> SortCorpus[l[k]]],
          sorted |-> <<>>]

SortByEngagement ==
  /\ so.pc = "called"
  /\ so' = [so EXCEPT !.pc = "sorted", !.sorted = sortByEngagement(so.articles)]

(***************************************************************************)
(* Validation: PostGenerator.validatePost                                  *)
(***************************************************************************)
\* A text as validatePost reads it: its length, how many of its
\* characters are capital letters, whether it is blank (nothing but white
\* space), whether it has a run of three or more of ! and ?, and whether
\* it matches one of the spam patterns.
PostLengths == {0, 1, 49, 50, 100, MaxPostLength, MaxPostLength + 1}
CapsCounts == {0, 15, 16, 30, 31, 84, 85}
PostTexts ==
  {t \in [length : PostLengths, caps : CapsCounts, blank : BOOLEAN,
          punctuation : BOOLEAN, spam : BOOLEAN] :
     /\ t.caps <= t.length
     /\ t.length = 0 => t.blank
     /\ t.blank => (t.caps = 0 /\ ~t.punctuation /\ ~t.spam)
     /\ t.punctuation => t.length - t.caps >= 3
     /\ t.spam => t.length >= 7}

\* issues.push(issue) when the condition holds.
PushIf(issues, condition, issue) ==
  IF condition THEN Append(issues, issue) ELSE issues

\* validatePost without the check of the capital letters.
validatePostAnyCaps(postText) ==
  LET i1 == PushIf(<<>>, postText.blank, "Post text is empty")
      i2 == PushIf(i1, postText.length > MaxPostLength,
                   "Post exceeds maximum length")
      i3 == PushIf(i2, postText.length < 50,
                   "Post is too short for good engagement")
      i5 == PushIf(i3, postText.punctuation, "Excessive punctuation detected")
      issues == PushIf(i5, postText.spam, "Content may appear spam-like")
  IN  [isValid |-> Len(issues) = 0, issues |-> issues]

\* capsRatio > 0.3 is 10 * caps > 3 * length; the ratio of the empty text
\* is NaN, which is not greater.
validatePost(postText) ==
  LET i1 == PushIf(<<>>, postText.blank, "Post text is empty")
      i2 == PushIf(i1, postText.length > MaxPostLength,
                   "Post exceeds maximum length")
      i3 == PushIf(i2, postText.length < 50,
                   "Post is too short for good engagement")
      i4 == PushIf(i3, postText.length > 0
                         /\ 10 * postText.caps > 3 * postText.length,
                   "Too many capital letters")
      i5 == PushIf(i4, postText.punctuation, "Excessive punctuation detected")
      issues == PushIf(i5, postText.spam, "Content may appear spam-like")
  IN  [isValid |-> Len(issues) = 0, issues |-> issues]

NoValidation == [isValid |-> FALSE, issues |-> <<>>]
ValIdle ==
  vp = [pc |-> "called",
        postText |-> [length |-> 0, caps |-> 0, blank |-> TRUE,
                      punctuation |-> FALSE, spam |-> FALSE],
        validation |-> NoValidation]

InitValidate ==
  \E t \in PostTexts :
    vp = [pc |-> "called", postText |-> t, validation |-> NoValidation]

ValidatePost ==
  /\ vp.pc = "called"
  /\ vp' = [vp EXCEPT !.pc = "validated",
                      !.validation = validatePost(vp.postText)]

(***************************************************************************)
(* Publishing by the processed flag: models.js and postManager.js          *)
(***************************************************************************)
\* In this generation of the store a post is a row with a processed flag,
\* schedulePost hands FacebookPost.create the Date calculatePostTime
\* returned, and getReadyToPost compares the stored value with
\* datetime('now') inside SQLite.
FlagIds == 1..NumFlagPosts
FlagTimes == 0..MaxFlagTime

\* The declared types of the scheduled_time column in the schemas of the
\* repository.
ColumnTypes == {"DATETIME", "TEXT"}

\* The sqlite3 driver binds a Date as a number, its epoch milliseconds.
\* v is the instant the value stands for.
BindDate(t) == [class |-> "real", form |-> "number", v |-> t]

\* A column of NUMERIC affinity (DATETIME) stores the number as it is, a
\* column of TEXT affinity stores the digits of the number as text.
StoreIn(columnType, value) ==
  IF columnType = "TEXT" /\ value.class = "real"
  THEN [class |-> "text", form |-> "digits", v |-> value.v]
  ELSE value

\* datetime('now'): the text 'YYYY-MM-DD HH:MM:SS'.
datetimeNow(t) == [class |-> "text", form |-> "date", v |-> t]

\* a <= b in SQLite: a number sorts before any text; two texts compare
\* character by character, and the digits of the epoch milliseconds of
\* this century start with '1', the date with '2'.
SqlLessEq(a, b) ==
  IF a.class # b.class THEN a.class = "real"
  ELSE IF a.form = b.form THEN a.v <= b.v
  ELSE a.form = "digits"

\* FacebookPost.create: the row of a new post.
NewFlagRow(columnType, scheduledTime) ==
  [scheduledTime |-> scheduledTime,
   scheduled_time |-> StoreIn(columnType, BindDate(scheduledTime)),
   processed |-> 0]

\* SELECT * FROM facebook_posts WHERE processed = 0
\*   AND scheduled_time <= datetime('now') ORDER BY scheduled_time ASC
RECURSIVE OrderedByTime(_, _)
OrderedByTime(rows, ids) ==
  IF ids = {} THEN <<>>
  ELSE LET first == CHOOSE p \in ids :
                      \A q \in ids :
                        \/ rows[p].scheduled_time.v < rows[q].scheduled_time.v
                        \/ /\ rows[p].scheduled_time.v = rows[q].scheduled_time.v
                           /\ p <= q
       IN  <<first>> \o OrderedByTime(rows, ids \ {first})

selectReadyToPost(rows, t) ==
  OrderedByTime(rows,
    {p \in FlagIds :
       /\ rows[p].processed = 0
       /\ SqlLessEq(rows[p].scheduled_time, datetimeNow(t))})

\* UPDATE facebook_posts SET processed = 1 WHERE id = ?
markAsPosted(rows, id) == [rows EXCEPT ![id].processed = 1]

\* fl.rows is the table, fl.clock the time, fl.tick the publishing tick
\* with its batch, the instant of its selection, the rows unprocessed at
\* that instant and its counters; fl.delivered logs every createPost call with the instant of
\* the selection it came from and the flag the row had at that instant.
FlagIdleTick ==
  [pc |-> "idle", readyPosts |-> <<>>, i |-> 0, selectedAt |-> 0,
   unprocessed |-> {}, processed |-> 0, failed |-> 0]

FlgIdle ==
  fl = [rows |-> [p \in FlagIds |-> NewFlagRow("DATETIME", 0)],
        clock |-> 0, tick |-> FlagIdleTick, delivered |-> {}, ticks |-> 0]

InitFlag ==
  \E columnType \in ColumnTypes, times \in [FlagIds -> FlagTimes] :
    fl = [rows |-> [p \in FlagIds |-> NewFlagRow(columnType, times[p])],
          clock |-> 0, tick |-> FlagIdleTick, delivered |-> {}, ticks |-> 0]

FlagCur == fl.tick.readyPosts[fl.tick.i]

\* processScheduledPosts up to its loop; getReadyToPost returns the rows
\* selected, or no row when the query raised.
SelectReadyPosts ==
  /\ fl.tick.pc = "idle" /\ fl.ticks < MaxFlagTicks
  /\ \E readyPosts \in {selectReadyToPost(fl.rows, fl.clock), <<>>} :
       fl' = [fl EXCEPT
                !.ticks = @ + 1,
                !.tick = [pc |-> "loop", readyPosts |-> readyPosts,
                          i |-> 1, selectedAt |-> fl.clock,
                          unprocessed |-> {p \in FlagIds :
                                             fl.rows[p].processed = 0},
                          processed |-> 0, failed |-> 0]]

\* publishPost: graphApi.createPost returns or raises.
PublishPostCall ==
  /\ fl.tick.pc = "loop" /\ fl.tick.i <= Len(fl.tick.readyPosts)
  /\ \E ok \in BOOLEAN :
       fl' = [fl EXCEPT
                !.delivered = @ \cup {[id |-> FlagCur,
                                       selectedAt |-> fl.tick.selectedAt,
                                       pending |-> FlagCur \in fl.tick.unprocessed]},
                !.tick = IF ok THEN [@ EXCEPT !.pc = "markAsPosted"]
                         ELSE [@ EXCEPT !.failed = @ + 1, !.i = @ + 1]]

\* publishPost: FacebookPost.markAsPosted succeeds or its update raises.
MarkAsPostedCall ==
  /\ fl.tick.pc = "markAsPosted"
  /\ \/ fl' = [fl EXCEPT
                 !.rows = markAsPosted(@, FlagCur),
                 !.tick = [@ EXCEPT !.pc = "loop", !.processed = @ + 1,
                                    !.i = @ + 1]]
     \/ fl' = [fl EXCEPT
                 !.tick = [@ EXCEPT !.pc = "loop", !.failed = @ + 1,
                                    !.i = @ + 1]]

\* processScheduledPosts returns its counts.
ReturnCounts ==
  /\ fl.tick.pc = "loop" /\ fl.tick.i > Len(fl.tick.readyPosts)
  /\ fl' = [fl EXCEPT !.tick = [@ EXCEPT !.pc = "idle"]]

FlagClock ==
  /\ fl.clock < MaxFlagTime
  /\ fl' = [fl EXCEPT !.clock = @ + 1]

NextFlag ==
  \/ SelectReadyPosts
  \/ PublishPostCall
  \/ MarkAsPostedCall
  \/ ReturnCounts
  \/ FlagClock

(***************************************************************************)
(* Scraping: RSSFeedScraper.scrapeAllSources and scrapeSource              *)
(***************************************************************************)
\* The enabled rss sources are numbered in the order of the configuration.
Sources == 1..MaxSources

\* What parseURL answers for a source: an error, or a feed whose items
\* are fresh, older than the cutoff, or broken (processRSSItem raises).
Item(id, kind) == [id |-> id, kind |-> kind]
Feeds(s) ==
  {[ok |-> FALSE, items |-> <<>>],
   [ok |-> TRUE, items |-> <<>>],
   [ok |-> TRUE, items |-> <<Item(s, "fresh")>>],
   [ok |-> TRUE, items |-> <<Item(s, "broken"), Item(s + MaxSources, "fresh"),
                             Item(s + 2 * MaxSources, "old")>>]}
NoFeed == [ok |-> FALSE, items |-> <<>>]

\* The loop of scrapeSource over the items: an old item is skipped, a
\* broken one is caught and logged.
RECURSIVE ProcessItems(_)
ProcessItems(items) ==
  IF items = <<>> THEN <<>>
  ELSE (IF Head(items).kind = "fresh" THEN <<Head(items).id>> ELSE <<>>)
       \o ProcessItems(Tail(items))

\* scrapeSource: its own catch turns a failed fetch into no articles.
scrapeSource(feed) == IF feed.ok THEN ProcessItems(feed.items) ELSE <<>>

\* sources.slice(i, i + maxConcurrent), as numbers of sources.
Batch(i, maxConcurrent, n) ==
  {s \in Sources : i < s /\ s <= i + maxConcurrent /\ s <= n}

\* The results of the batch pushed for its first source only.
RECURSIVE pushFirstFulfilled(_, _, _)
pushFirstFulfilled(allArticles, results, batch) ==
  IF batch = {} THEN allArticles
  ELSE LET s == CHOOSE x \in batch : \A y \in batch : x <= y
       IN  IF results[s].status = "fulfilled"
           THEN allArticles \o results[s].value ELSE allArticles

\* batchResults.forEach: the value of every fulfilled promise is pushed,
\* in the order of the batch.
RECURSIVE pushFulfilled(_, _, _)
pushFulfilled(allArticles, results, batch) ==
  IF batch = {} THEN allArticles
  ELSE LET s == CHOOSE x \in batch : \A y \in batch : x <= y
       IN  pushFulfilled(IF results[s].status = "fulfilled"
                         THEN allArticles \o results[s].value
                         ELSE allArticles,
                         results, batch \ {s})

NoResult == [status |-> "none", value |-> <<>>]

\* sa.n sources and maxConcurrent are the configuration; i is the loop
\* variable, pending the promises of the batch not yet settled, feed what
\* each source answered, results what its promise settled to.
ScrIdle ==
  sa = [pc |-> "called", n |-> 0, maxConcurrent |-> 1, i |-> 0,
        pending |-> {}, feed |-> [s \in Sources |-> NoFeed],
        fetched |-> {}, results |-> [s \in Sources |-> NoResult],
        allArticles |-> <<>>, delays |-> 0]

InitScrape ==
  \E n \in 0..MaxSources, maxConcurrent \in 1..MaxConcurrent :
    sa = [pc |-> "called", n |-> n, maxConcurrent |-> maxConcurrent, i |-> 0,
          pending |-> {}, feed |-> [s \in Sources |-> NoFeed],
          fetched |-> {}, results |-> [s \in Sources |-> NoResult],
          allArticles |-> <<>>, delays |-> 0]

\* scrapeAllSources up to its loop: no source, no article.
scrapeAllSources ==
  /\ sa.pc = "called"
  /\ sa' = [sa EXCEPT !.pc = IF sa.n = 0 THEN "returned" ELSE "loop"]

\* The head of the loop: the fetches of the next batch are started
\* together, or the articles are returned.
StartBatch ==
  /\ sa.pc = "loop"
  /\ IF sa.i < sa.n
     THEN sa' = [sa EXCEPT !.pc = "allSettled",
                           !.pending = Batch(sa.i, sa.maxConcurrent, sa.n)]
     ELSE sa' = [sa EXCEPT !.pc = "returned"]

\* The fetch of one source of the batch ends, in any order; its promise
\* is fulfilled with what scrapeSource returns.
ScrapeSource(s) ==
  /\ sa.pc = "allSettled" /\ s \in sa.pending
  /\ \E feed \in Feeds(s) :
       sa' = [sa EXCEPT
                !.pending = @ \ {s},
                !.feed[s] = feed,
                !.fetched = @ \cup {s},
                !.results[s] = [status |-> "fulfilled",
                                value |-> scrapeSource(feed)]]

\* Promise.allSettled resolves: the results are pushed, and a delay
\* follows unless the batch was the last.
AllSettled ==
  /\ sa.pc = "allSettled" /\ sa.pending = {}
  /\ LET more == sa.i + sa.maxConcurrent < sa.n
     IN  sa' = [sa EXCEPT
                  !.allArticles =
                     pushFulfilled(@, sa.results,
                                   Batch(sa.i, sa.maxConcurrent, sa.n)),
                  !.pc = IF more THEN "delay" ELSE "loop",
                  !.i = IF more THEN @ ELSE @ + sa.maxConcurrent]

\* setTimeout(resolve, requestDelay), then i += maxConcurrent.
RequestDelay ==
  /\ sa.pc = "delay"
  /\ sa' = [sa EXCEPT !.pc = "loop", !.i = @ + sa.maxConcurrent,
                      !.delays = @ + 1]

NextScrape ==
  \/ scrapeAllSources
  \/ StartBatch
  \/ \E s \in Sources : ScrapeSource(s)
  \/ AllSettled
  \/ RequestDelay


(***************************************************************************)
(* PostManager.updateEngagementMetrics over the processed-flag store       *)
(* (postManager.js, models.js, graphApi.js getPostMetrics)                 *)
(***************************************************************************)
RefreshIds == 1..NumRefreshPosts

\* The text JSON.stringify gives for null.
JsonNull == -1

\* JSON.stringify(metrics): the metrics object retrieved by refresh k is
\* written k, the value null gives the text 'null'.
stringify(metrics) == IF metrics = NULL THEN JsonNull ELSE metrics

\* A row of facebook_posts as FacebookPost.create leaves it.
RefreshRow ==
  [status |-> "pending", processed |-> 0, facebook_post_id |-> NULL,
   engagement_metrics |-> NULL]

\* The ids of S from the highest down (ORDER BY created_at DESC).
RECURSIVE Descending(_)
Descending(S) ==
  IF S = {} THEN <<>>
  ELSE LET top == CHOOSE x \in S : \A y \in S : y <= x
       IN  <<top>> \o Descending(S \ {top})

\* SELECT * FROM facebook_posts WHERE processed = 1 AND facebook_post_id
\* IS NOT NULL AND facebook_post_id != '' ORDER BY created_at DESC LIMIT 50
getPublishedPosts(rows) ==
  Descending({p \in RefreshIds : /\ rows[p].processed = 1
                                 /\ rows[p].facebook_post_id # NULL})

\* UPDATE facebook_posts SET engagement_metrics = ?, updated_at = ...
\* WHERE id = ?, with JSON.stringify(metrics) bound.
updateMetrics(rows, id, metrics) ==
  [rows EXCEPT ![id].engagement_metrics = stringify(metrics)]

\* rf.rows is the table, rf.tick the refresh in progress: its batch, its
\* position, the metrics getPostMetrics returned and its counters.
RefreshIdleTick ==
  [pc |-> "idle", posts |-> <<>>, i |-> 0, metrics |-> NULL,
   updated |-> 0, failed |-> 0]

RefIdle ==
  rf = [rows |-> [p \in RefreshIds |-> RefreshRow], tick |-> RefreshIdleTick,
        ticks |-> 0]

InitRefresh == RefIdle

RefreshCur == rf.tick.posts[rf.tick.i]

\* publishPost of the status-machine generation has delivered the row:
\* updateStatus(id, 'posted', {facebook_post_id, post_url, posted_time}).
RecordPosted(id) ==
  /\ rf.rows[id].status = "pending"
  /\ rf' = [rf EXCEPT !.rows[id].status = "posted",
                      !.rows[id].facebook_post_id = id]

\* publishPost of the PostManager has delivered the row:
\* FacebookPost.markAsPosted(post.id).
RefreshMarkAsPosted(id) ==
  /\ rf.rows[id].processed = 0
  /\ rf' = [rf EXCEPT !.rows = markAsPosted(@, id)]

\* updateEngagementMetrics up to its loop; getPublishedPosts returns the
\* rows selected, or no row when the query raised.
RefreshStart ==
  /\ rf.tick.pc \in {"idle", "returned"}
  /\ rf.ticks < MaxRefreshTicks
  /\ \E batch \in {getPublishedPosts(rf.rows), <<>>} :
       rf' = [rf EXCEPT !.ticks = @ + 1,
                !.tick = IF batch = <<>>
                           THEN [RefreshIdleTick EXCEPT !.pc = "returned"]
                           ELSE [RefreshIdleTick EXCEPT !.pc = "getPostMetrics",
                                                        !.posts = batch, !.i = 1]]

\* const metrics = await this.graphApi.getPostMetrics(post.facebook_post_id):
\* the metrics object, or null when the request failed (getPostMetrics
\* catches the error itself and returns null).
RefreshGetPostMetrics ==
  /\ rf.tick.pc = "getPostMetrics"
  /\ \E metrics \in {rf.ticks, NULL} :
       rf' = [rf EXCEPT !.tick.pc = "updateMetrics", !.tick.metrics = metrics]

\* await FacebookPost.updateMetrics(post.id, metrics); updated++.  A
\* rejected UPDATE is caught, logged and counted as failed.  Then the next
\* post, or the return of {updated, failed, total}.
RefreshUpdateMetrics ==
  /\ rf.tick.pc = "updateMetrics"
  /\ LET next == IF rf.tick.i < Len(rf.tick.posts)
                   THEN [rf.tick EXCEPT !.pc = "getPostMetrics", !.i = @ + 1,
                                        !.metrics = NULL]
                   ELSE [rf.tick EXCEPT !.pc = "returned", !.metrics = NULL]
     IN  \/ rf' = [rf EXCEPT
                     !.rows = updateMetrics(@, RefreshCur, rf.tick.metrics),
                     !.tick = [next EXCEPT !.updated = @ + 1]]
         \/ rf' = [rf EXCEPT !.tick = [next EXCEPT !.failed = @ + 1]]

NextRefresh ==
  \/ \E id \in RefreshIds : RecordPosted(id) \/ RefreshMarkAsPosted(id)
  \/ RefreshStart
  \/ RefreshGetPostMetrics
  \/ RefreshUpdateMetrics


(***************************************************************************)
(* PostManager.validateCredentials with refreshToken (postManager.js) and  *)
(* FacebookGraphAPI.exchangeToken / getPageInfo (graphApi.js)              *)
(***************************************************************************)
\* The answers of the Delivery Client to the request of getPageInfo: a
\* success, a network error, a server error and a token error.
CredResponses ==
  {resp \in Responses : \/ resp.kind \in {"ok", "network"}
                        \/ (resp.status = 500 /\ resp.code = 0)
                        \/ (resp.status = 400 /\ resp.code = 190)}

\* The answers to one axios call of exchangeToken: a body with an
\* access_token, a body without one, or a rejection.
ExchangeAnswers == {"access_token", "no access_token", "rejected"}

\* The axios calls exchangeToken makes: the long-lived token, the page
\* token and the permanent page token.
ExchangeCalls == 3

\* vc.pc is the position of the innermost validateCredentials call,
\* vc.due what shouldRefreshToken answers, vc.rq the request of
\* getPageInfo, vc.exchanged the axios calls of the running exchangeToken
\* that have answered, vc.inCatch whether refreshToken runs in the catch
\* block, vc.refreshes the refreshes completed (counted up to
\* MaxCountedRefreshes).
CredIdle ==
  vc = [pc |-> "called", due |-> FALSE, rq |-> NoRequest, exchanged |-> 0,
        inCatch |-> FALSE, refreshes |-> 0]

\* validateCredentials is called, less or more than tokenRefreshInterval
\* after the last refresh.
InitCredentials ==
  \E due \in BOOLEAN :
    vc = [pc |-> "called", due |-> due, rq |-> NoRequest, exchanged |-> 0,
          inCatch |-> FALSE, refreshes |-> 0]

\* if (this.shouldRefreshToken()) await this.refreshToken(); then
\* this.graphApi.getPageInfo() starts its request.
ShouldRefreshToken ==
  /\ vc.pc = "called"
  /\ vc' = IF vc.due
             THEN [vc EXCEPT !.pc = "exchangeToken", !.exchanged = 0,
                             !.inCatch = FALSE]
             ELSE [vc EXCEPT !.pc = "getPageInfo",
                             !.rq = NewRequest(RetryAttempts)]

\* refreshToken: one axios call of exchangeToken answers.  After the third
\* token lastTokenRefresh is set; in the try block getPageInfo follows, in
\* the catch block validateCredentials calls itself.  A call without a
\* token or a rejected call raises out of refreshToken: in the try block
\* the message is not 'Session has expired' and the catch block rethrows,
\* in the catch block refreshError is rethrown.
ExchangeToken ==
  /\ vc.pc = "exchangeToken"
  /\ \E answer \in ExchangeAnswers :
       vc' = IF answer # "access_token" THEN [vc EXCEPT !.pc = "raised"]
             ELSE IF vc.exchanged + 1 < ExchangeCalls
               THEN [vc EXCEPT !.exchanged = @ + 1]
             ELSE [vc EXCEPT
                     !.exchanged = 0, !.due = FALSE,
                     !.refreshes = IF @ < MaxCountedRefreshes THEN @ + 1 ELSE @,
                     !.pc = IF vc.inCatch THEN "called" ELSE "getPageInfo",
                     !.rq = IF vc.inCatch THEN NoRequest
                            ELSE NewRequest(RetryAttempts)]

\* getPageInfo: one attempt of its makeRequest answers.  The data is
\* returned as pageInfo; an error whose message, built from the Delivery
\* Client's error message, includes 'Session has expired' starts
\* refreshToken in the catch block; any other error is rethrown.
GetPageInfo ==
  /\ vc.pc = "getPageInfo"
  /\ \E resp \in CredResponses, sessionHasExpired \in BOOLEAN :
       LET rq == makeRequest(vc.rq, resp)
       IN  /\ sessionHasExpired => (rq.st = "raised" /\ resp.kind = "http")
           /\ vc' = [vc EXCEPT
                       !.rq = rq,
                       !.pc = IF rq.st = "running" THEN "getPageInfo"
                              ELSE IF rq.st = "returned" THEN "returned"
                              ELSE IF sessionHasExpired THEN "exchangeToken"
                              ELSE "raised",
                       !.exchanged = 0,
                       !.inCatch = (rq.st = "raised" /\ sessionHasExpired)]

NextCredentials == ShouldRefreshToken \/ ExchangeToken \/ GetPageInfo

(***************************************************************************)
(* Specifications                                                          *)
(***************************************************************************)
\* While one part of the program is explored the others stand still.
ReqIdle == cp = createPost(FALSE, 0)
PubIdle ==
  /\ posts = [p \in PostIds |-> NewPost(0)]
  /\ now = 0
  /\ tick = [t \in Ticks |-> IdleTick]
  /\ crashes = 0
  /\ delivery = [p \in PostIds |-> NoDelivery]

CreIdle ==
  /\ processed = [a \in ArticleIds |-> FALSE]
  /\ fbPosts = <<>>
  /\ creation = [c \in CreationRuns |-> IdleCreation]
  /\ discarded = {}
  /\ creations = 0

\* The parts of the program outside the publishing tick, the Delivery
\* Client and the ingestion run.
DedIdle ==
  dd = [pc |-> "called", articles |-> <<>>, existingArticles |-> <<>>,
        result |-> <<>>]

FilIdle == cf = [pc |-> "called", articles |-> <<>>, out |-> NoFiltering]

ComIdle ==
  gp = [pc |-> "generatePost", headline |-> 0, summary |-> 0,
        callToAction |-> 0, hashtags |-> 0, fullText |-> <<0>>]

MetIdle ==
  /\ published = [p \in PostIds |-> MetricsRow("pending")]
  /\ mt = IdleMetrics
  /\ metricsTicks = 0

\* The stages modelled after the metrics tick.
lateVars == <<sch, cl, so, vp, fl, sa, rf, vc>>
LateIdle == SchIdle /\ ClnIdle /\ SrtIdle /\ ValIdle /\ FlgIdle /\ ScrIdle /\ RefIdle /\ CredIdle

restVars == <<creVars, dedVars, filVars, comVars, metVars, lateVars>>
RestIdle == CreIdle /\ DedIdle /\ FilIdle /\ ComIdle /\ MetIdle /\ LateIdle

Init == InitPub /\ ReqIdle /\ InitIngest /\ RestIdle
Next == NextPub /\ UNCHANGED reqVars /\ UNCHANGED ingVars /\ UNCHANGED restVars
Spec == Init /\ [][Next]_vars

InitR == InitReq /\ PubIdle /\ InitIngest /\ RestIdle
NextR == Attempt /\ UNCHANGED pubVars /\ UNCHANGED ingVars /\ UNCHANGED restVars
SpecReq == InitR /\ [][NextR]_vars

InitI == InitIngest /\ PubIdle /\ ReqIdle /\ RestIdle
NextI == NextIngest /\ UNCHANGED pubVars /\ UNCHANGED reqVars /\ UNCHANGED restVars
SpecIngest == InitI /\ [][NextI]_vars

\* The event loop runs every continuation that is ready, and cron keeps
\* firing the publishing tick; a crash is never forced.
FairSpec ==
  /\ Spec
  /\ \A t \in Ticks : WF_vars(TickStep(t) /\ UNCHANGED reqVars /\ UNCHANGED ingVars
                                          /\ UNCHANGED restVars)
  /\ WF_vars(Advance /\ UNCHANGED reqVars /\ UNCHANGED ingVars /\ UNCHANGED restVars)

\* Post-creation runs, with the ingestion run beside them.
InitC ==
  /\ InitCreate /\ InitIngest /\ PubIdle /\ ReqIdle
  /\ DedIdle /\ FilIdle /\ ComIdle /\ MetIdle /\ LateIdle
NextC ==
  \/ /\ NextCreate
     /\ UNCHANGED pubVars /\ UNCHANGED reqVars /\ UNCHANGED ingVars
     /\ UNCHANGED dedVars /\ UNCHANGED filVars /\ UNCHANGED comVars
     /\ UNCHANGED metVars /\ UNCHANGED lateVars
  \/ /\ NextIngest /\ scrapes' <= MaxScrapesBeside
     /\ UNCHANGED pubVars /\ UNCHANGED reqVars /\ UNCHANGED creVars
     /\ UNCHANGED dedVars /\ UNCHANGED filVars /\ UNCHANGED comVars
     /\ UNCHANGED metVars /\ UNCHANGED lateVars
SpecCreate == InitC /\ [][NextC]_vars

\* One call of the DuplicateDetector on every batch and recent window.
InitD ==
  /\ InitDedupe /\ InitIngest /\ PubIdle /\ ReqIdle
  /\ CreIdle /\ FilIdle /\ ComIdle /\ MetIdle /\ LateIdle
NextD ==
  /\ NextDedupe
  /\ UNCHANGED pubVars /\ UNCHANGED reqVars /\ UNCHANGED ingVars
  /\ UNCHANGED creVars /\ UNCHANGED filVars /\ UNCHANGED comVars
  /\ UNCHANGED metVars /\ UNCHANGED lateVars
SpecDedupe == InitD /\ [][NextD]_vars

\* One call of filterArticles on every batch.
InitF ==
  /\ InitFilter /\ InitIngest /\ PubIdle /\ ReqIdle
  /\ CreIdle /\ DedIdle /\ ComIdle /\ MetIdle /\ LateIdle
NextF ==
  /\ FilterArticles
  /\ UNCHANGED pubVars /\ UNCHANGED reqVars /\ UNCHANGED ingVars
  /\ UNCHANGED creVars /\ UNCHANGED dedVars /\ UNCHANGED comVars
  /\ UNCHANGED metVars /\ UNCHANGED lateVars
SpecFilter == InitF /\ [][NextF]_vars

\* One call of assemblePost on every combination of part lengths.
InitG ==
  /\ InitCompose /\ InitIngest /\ PubIdle /\ ReqIdle
  /\ CreIdle /\ DedIdle /\ FilIdle /\ MetIdle /\ LateIdle
NextG ==
  /\ AssemblePost
  /\ UNCHANGED pubVars /\ UNCHANGED reqVars /\ UNCHANGED ingVars
  /\ UNCHANGED creVars /\ UNCHANGED dedVars /\ UNCHANGED filVars
  /\ UNCHANGED metVars /\ UNCHANGED lateVars
SpecCompose == InitG /\ [][NextG]_vars

\* Metrics ticks over every table the publishing tick may leave.
InitM ==
  /\ InitMetrics /\ InitIngest /\ PubIdle /\ ReqIdle
  /\ CreIdle /\ DedIdle /\ FilIdle /\ ComIdle /\ LateIdle
NextM ==
  /\ NextMetrics
  /\ UNCHANGED pubVars /\ UNCHANGED reqVars /\ UNCHANGED ingVars
  /\ UNCHANGED creVars /\ UNCHANGED dedVars /\ UNCHANGED filVars
  /\ UNCHANGED comVars /\ UNCHANGED lateVars
SpecMetrics == InitM /\ [][NextM]_vars

earlyVars == <<reqVars, pubVars, ingVars, creVars, dedVars, filVars,
               comVars, metVars>>
EarlyIdle ==
  /\ InitIngest /\ PubIdle /\ ReqIdle
  /\ CreIdle /\ DedIdle /\ FilIdle /\ ComIdle /\ MetIdle

\* While a later stage is explored every other stage stands still.
\* Post-creation runs of every slot at the instants of the clock.
InitS ==
  /\ InitSchedule /\ EarlyIdle
  /\ ClnIdle /\ SrtIdle /\ ValIdle /\ FlgIdle /\ ScrIdle /\ RefIdle /\ CredIdle
NextS ==
  /\ NextSchedule
  /\ UNCHANGED earlyVars
  /\ UNCHANGED <<cl, so, vp, fl, sa, rf, vc>>
SpecSchedule == InitS /\ [][NextS]_vars

\* One cleanup tick over every pair of rows.
InitCl ==
  /\ InitCleanup /\ EarlyIdle
  /\ SchIdle /\ SrtIdle /\ ValIdle /\ FlgIdle /\ ScrIdle /\ RefIdle /\ CredIdle
NextCl ==
  /\ RunCleanup
  /\ UNCHANGED earlyVars
  /\ UNCHANGED <<sch, so, vp, fl, sa, rf, vc>>
SpecCleanup == InitCl /\ [][NextCl]_vars

\* One call of sortByEngagement on every batch.
InitSo ==
  /\ InitSort /\ EarlyIdle
  /\ SchIdle /\ ClnIdle /\ ValIdle /\ FlgIdle /\ ScrIdle /\ RefIdle /\ CredIdle
NextSo ==
  /\ SortByEngagement
  /\ UNCHANGED earlyVars
  /\ UNCHANGED <<sch, cl, vp, fl, sa, rf, vc>>
SpecSort == InitSo /\ [][NextSo]_vars

\* One call of validatePost on every text.
InitV ==
  /\ InitValidate /\ EarlyIdle
  /\ SchIdle /\ ClnIdle /\ SrtIdle /\ FlgIdle /\ ScrIdle /\ RefIdle /\ CredIdle
NextV ==
  /\ ValidatePost
  /\ UNCHANGED earlyVars
  /\ UNCHANGED <<sch, cl, so, fl, sa, rf, vc>>
SpecValidate == InitV /\ [][NextV]_vars

\* Publishing ticks of postManager.js over the table of models.js.
InitFl ==
  /\ InitFlag /\ EarlyIdle
  /\ SchIdle /\ ClnIdle /\ SrtIdle /\ ValIdle /\ ScrIdle /\ RefIdle /\ CredIdle
NextFl ==
  /\ NextFlag
  /\ UNCHANGED earlyVars
  /\ UNCHANGED <<sch, cl, so, vp, sa, rf, vc>>
SpecFlag == InitFl /\ [][NextFl]_vars

\* One call of scrapeAllSources for every number of sources and batch size.
InitSa ==
  /\ InitScrape /\ EarlyIdle
  /\ SchIdle /\ ClnIdle /\ SrtIdle /\ ValIdle /\ FlgIdle /\ RefIdle /\ CredIdle
NextSa ==
  /\ NextScrape
  /\ UNCHANGED earlyVars
  /\ UNCHANGED <<sch, cl, so, vp, fl, rf, vc>>
SpecScrape == InitSa /\ [][NextSa]_vars

\* Metrics refreshes of the PostManager beside the two ways a row is recorded as delivered.
InitRf ==
  /\ InitRefresh /\ EarlyIdle
  /\ SchIdle /\ ClnIdle /\ SrtIdle /\ ValIdle /\ FlgIdle /\ ScrIdle /\ CredIdle
NextRf ==
  /\ NextRefresh
  /\ UNCHANGED earlyVars
  /\ UNCHANGED <<sch, cl, so, vp, fl, sa, vc>>
SpecRefresh == InitRf /\ [][NextRf]_vars

\* One call of validateCredentials over every behaviour of the Delivery Client.
InitVc ==
  /\ InitCredentials /\ EarlyIdle
  /\ SchIdle /\ ClnIdle /\ SrtIdle /\ ValIdle /\ FlgIdle /\ ScrIdle /\ RefIdle
NextVc ==
  /\ NextCredentials
  /\ UNCHANGED earlyVars
  /\ UNCHANGED <<sch, cl, so, vp, fl, sa, rf>>
SpecCredentials == InitVc /\ [][NextVc]_vars

(***************************************************************************)
(* Claims                                                                  *)
(***************************************************************************)
Forward == {<<"pending", "posting">>, <<"posting", "posted">>,
            <<"posting", "failed">>}

\* C1: a post's status only moves pending -> posting -> posted | failed,
\* over every interleaving of publishing ticks: never back from posted or
\* failed, and never to posted or failed without passing through posting.
C1_StatusOnlyForward ==
  [][\A p \in PostIds :
       posts'[p].status # posts[p].status
         => <<posts[p].status, posts'[p].status>> \in Forward]_vars

\* The posts this tick has finished with (publishPost has returned or thrown).
Finished(t) ==
  {tick[t].readyPosts[k] : k \in {j \in 1..Len(tick[t].readyPosts) :
       j < tick[t].i \/ (j = tick[t].i /\ tick[t].pc = "returned")}}

\* This tick's createPost call for its current post succeeded / raised.
Delivered(t) == tick[t].result # NULL
Refused(t) == tick[t].result = NULL /\ tick[t].calls[Cur(t)] > 0

\* C3: when the tick has processed a ready pending post and createPost
\* succeeded, the post is posted, with the facebook_post_id createPost
\* returned and a posted_time.
C3_SuccessIsRecorded ==
  \A t \in Ticks :
    (tick[t].pc = "returned" /\ Delivered(t))
      => /\ posts[Cur(t)].status = "posted"
         /\ posts[Cur(t)].facebook_post_id = tick[t].result
         /\ posts[Cur(t)].posted_time # NoTime

\* C4: when createPost raised for a post the post is failed with a
\* non-empty error_message, and every failed post has a non-empty
\* error_message.
C4_FailureIsRecorded ==
  /\ \A t \in Ticks :
       (tick[t].pc = "returned" /\ Refused(t))
         => /\ posts[Cur(t)].status = "failed"
            /\ posts[Cur(t)].error_message # ""
  /\ \A p \in PostIds :
       posts[p].status = "failed" => posts[p].error_message # ""

\* C5: once a post's delivery has failed no tick takes it into delivery
\* again: no tick marks a failed post 'posting' and goes on to createPost.
C5_FailedNeverRetried ==
  [][\A t \in Ticks :
       (tick[t].pc = "publishPost" /\ tick'[t].pc = "createPost")
         => posts[Cur(t)].status # "failed"]_vars

\* A tick leaves its loop only after the last post of its batch (or is
\* lost in a crash).
LoopRunsToEnd ==
  [][\A t \in Ticks :
       (tick[t].pc # "idle" /\ tick'[t].pc = "idle" /\ crashes' = crashes)
         => (tick[t].pc = "returned" /\ tick[t].i = Len(tick[t].readyPosts))]_vars

\* C6 as stated: every post the tick has finished with had createPost
\* called exactly once in the tick, and the tick goes through its whole
\* batch.
C6_EachDeliveredExactlyOnce ==
  /\ [](\A t \in Ticks : \A p \in Finished(t) : tick[t].calls[p] = 1)
  /\ LoopRunsToEnd

\* C6 as amended: every post the tick has finished with had createPost
\* called exactly once, except the posts whose 'posting' update was
\* rejected, for which it was not called; the tick goes through its whole
\* batch whatever the outcomes.
C6_EachProcessedOnce ==
  /\ [](\A t \in Ticks : \A p \in Finished(t) :
          tick[t].calls[p] = (IF p \in tick[t].unmarked THEN 0 ELSE 1))
  /\ LoopRunsToEnd

\* A tick is through its second post after the delivery of its first failed.
C6_Witness ==
  \E t \in Ticks :
    /\ tick[t].pc = "returned" /\ tick[t].i = 2 /\ tick[t].calls[Cur(t)] = 1
    /\ posts[tick[t].readyPosts[1]].status = "failed"
    /\ tick[t].calls[tick[t].readyPosts[1]] = 1

\* C7: every post that enters posting eventually reaches posted or failed,
\* crashes and restarts included.
C7_PostingResolves ==
  \A p \in PostIds :
    (posts[p].status = "posting") ~> (posts[p].status \in {"posted", "failed"})

\* The requests of the createPost call: the one in progress or last made,
\* and the photo request that failed before it.
Requests == {r \in {cp.rq, cp.photoRq} : r.st # "none"}
Seen(r) == {r.resps[k] : k \in 1..Len(r.resps)}

\* C8: one makeRequest makes at most retryAttempts HTTP attempts; when
\* every attempt failed with a retryable error it has made exactly
\* retryAttempts attempts and raises; it returns at the first success.
C8_BoundedAttempts ==
  \A r \in Requests :
    /\ r.calls <= r.retryAttempts
    /\ r.calls = Len(r.resps)
    /\ r.st = "running" => (r.calls < r.retryAttempts /\ \A x \in Seen(r) : Retryable(x))
    /\ (r.st # "running" /\ r.calls > 0 /\ \A x \in Seen(r) : Retryable(x))
         => (r.calls = r.retryAttempts /\ r.st = "raised")
    /\ \A k \in 1..Len(r.resps) :
         r.resps[k].kind = "ok"
           => (k = Len(r.resps) /\ r.st = "returned" /\ r.data = "data")

\* A request that used up three attempts on retryable errors and raised.
C8_Witness ==
  \E r \in Requests :
    /\ r.retryAttempts = 3 /\ r.calls = 3 /\ r.st = "raised"
    /\ \A x \in Seen(r) : Retryable(x)

\* A non-retryable response ends its request at once: the request raises,
\* the response is its last, and no wait follows it.
EndsRequest(r) ==
  (\E x \in Seen(r) : NonRetryable(x))
    => /\ r.st = "raised"
       /\ NonRetryable(r.resps[Len(r.resps)])
       /\ \A k \in 1..(Len(r.resps) - 1) : Retryable(r.resps[k])
       /\ Len(r.waits) = r.calls - 1

InProgress == {r \in Runs : run[r].pc \in RunningPcs \cup {"finished"}}

\* C2: at most one ingestion run is in progress; a trigger that arrives
\* during a run returns at once without scraping or writing, and does not
\* run later.
C2_SingleFlight ==
  /\ [](Cardinality(InProgress) <= 1 /\ (isProcessing <=> InProgress # {}))
  /\ [][\A r \in Runs :
          /\ (run[r].pc = "idle" /\ run'[r].pc # "idle" /\ InProgress # {})
               => /\ run'[r].pc = "skipped"
                  /\ UNCHANGED <<isProcessing, articles, queue, scrapes>>
          /\ run[r].pc = "skipped"
               => /\ run'[r].pc \in {"skipped", "idle"}
                  /\ (run'[r].pc = "idle" =>
                        UNCHANGED <<isProcessing, articles, queue, scrapes>>)]_vars

\* One trigger was skipped while the other's run is saving articles.
C2_Witness ==
  \E r, q \in Runs : run[r].pc = "skipped" /\ run[q].pc = "create"

\* C10: Article.create on a url already in the table adds no row and
\* resolves to the existing row instead of raising; the table never holds
\* two rows with one url.
C10_CreateResolvesToExisting ==
  /\ \A r \in Runs :
       run[r].last.existed
         => /\ ~run[r].last.raised
            /\ run[r].last.id = findByUrl(articles, run[r].last.url)
  /\ \A u \in Urls : Cardinality(RowsWithUrl(articles, u)) <= 1

\* The rows of facebook_posts that belong to article a.
PostsOf(a) == {k \in 1..Len(fbPosts) : fbPosts[k].article_id = a}

\* C11: over every sequence and overlap of post-creation runs, no article
\* ever has more than one row of facebook_posts.
C11_OnePostPerArticle ==
  \A a \in ArticleIds : Cardinality(PostsOf(a)) <= 1

\* The runs that have ended after their composed post failed validation.
FailedValidation ==
  {c \in CreationRuns : /\ creation[c].pc = "idle"
                        /\ creation[c].article # NULL
                        /\ ~creation[c].valid}

\* C17: when the composed post of the selected article fails validation, no
\* row of facebook_posts is created for the article, the article is marked
\* processed, and no later post-creation run selects the article.
C17_InvalidIsDiscarded ==
  /\ [](\A c \in FailedValidation :
          /\ PostsOf(creation[c].article) = {}
          /\ processed[creation[c].article])
  /\ [][\A c \in CreationRuns :
          (creation[c].pc = "idle" /\ creation'[c].pc = "generate")
            => \A d \in FailedValidation \ {c} :
                 creation[d].article # creation'[c].article]_vars

\* C20: a step of an ingestion run or of a post-creation run leaves every
\* existing row of facebook_posts as it is (status, facebook_post_id and
\* error_message included), and every row it adds has status 'pending' and
\* nothing recorded.
C20_OnlyPublishingChangesStatus ==
  [][/\ Len(fbPosts') >= Len(fbPosts)
     /\ \A k \in 1..Len(fbPosts) :
          /\ fbPosts'[k].status = fbPosts[k].status
          /\ fbPosts'[k].facebook_post_id = fbPosts[k].facebook_post_id
          /\ fbPosts'[k].error_message = fbPosts[k].error_message
     /\ \A k \in (Len(fbPosts) + 1)..Len(fbPosts') :
          /\ fbPosts'[k].status = "pending"
          /\ fbPosts'[k].facebook_post_id = NULL
          /\ fbPosts'[k].error_message = ""]_vars

\* A post-creation run has added a row beside a row the publishing tick
\* had already worked on.
C20_Witness ==
  /\ Len(fbPosts) >= 2
  /\ fbPosts[1].status \in {"posting", "posted", "failed"}
  /\ fbPosts[2].article_id \in ArticleIds

\* The new candidates, the recent window and the output of the call.
Candidates == {dd.articles[k] : k \in 1..Len(dd.articles)}
Recent == {dd.existingArticles[k] : k \in 1..Len(dd.existingArticles)}
Survivors == {dd.result[k] : k \in 1..Len(dd.result)}

\* Equal urls once tracking parameters, fragment, trailing slash and letter
\* case are left out.
SameCanonicalUrl(a, b) == a.url.path = b.url.path

\* C12: of every pair of new candidates with similarity >= threshold,
\* removeDuplicates keeps the one of higher engagement score and drops the
\* other; with equal scores it keeps the more recently published one.
C12_KeepsHigherEngagement ==
  dd.pc = "removeDuplicates" =>
    \A a, b \in Candidates :
      (/\ Similar(a, b)
       /\ \/ a.engagement_score > b.engagement_score
          \/ /\ a.engagement_score = b.engagement_score
             /\ a.published_date > b.published_date)
        => (a \in Survivors /\ b \notin Survivors)

\* C13 as stated: of the candidates of one canonical url, removeDuplicates
\* keeps exactly one.
C13_OnePerCanonicalUrl ==
  dd.pc = "removeDuplicates" =>
    \A a, c \in Candidates :
      (a # c /\ SameCanonicalUrl(a, c))
        => Cardinality({b \in Survivors : SameCanonicalUrl(a, b)}) = 1

\* C13 as amended: of the candidates of one canonical url, removeDuplicates
\* keeps at most one, and only the first of them in list order; it keeps
\* that one whenever no recent-window article has its url and it is
\* similar to no other candidate and to no recent-window article.
C13_AtMostOnePerCanonicalUrl ==
  dd.pc = "removeDuplicates" =>
    /\ \A a, b \in Survivors : SameCanonicalUrl(a, b) => a = b
    /\ \A k \in 1..Len(dd.articles) :
         LET a == dd.articles[k]
             first == \A m \in 1..(k - 1) : ~SameCanonicalUrl(dd.articles[m], a)
         IN  /\ a \in Survivors => first
             /\ (/\ first
                 /\ \A e \in Recent : ~SameCanonicalUrl(e, a) /\ ~Similar(a, e)
                 /\ \A b \in Candidates \ {a} : ~Similar(a, b))
                  => a \in Survivors

\* Two candidates that are not similar share a canonical url, written
\* differently, and one of them is kept.
C13_Witness ==
  /\ dd.pc = "removeDuplicates"
  /\ \E a, b \in Candidates :
       /\ a.url # b.url /\ SameCanonicalUrl(a, b) /\ ~Similar(a, b)
       /\ a \in Survivors /\ b \notin Survivors

\* The batch arts in the order given by the permutation q of its indexes.
Permuted(arts, q) == [k \in 1..Len(arts) |-> arts[q[k]]]

\* C14: the set of survivors of removeDuplicates is the same for every
\* order of the candidates and of the recent window, for batches in which
\* no two candidates tie on both engagement score and publish date.
C14_OrderIndependent ==
  (/\ dd.pc = "removeDuplicates"
   /\ \A a, b \in Candidates :
        (a # b) => (~Better(a, b) => Better(b, a)))
    => \A q \in Perms(1..Len(dd.articles)) :
       \A w \in Perms(1..Len(dd.existingArticles)) :
         LET other == removeDuplicates(Permuted(dd.articles, q),
                                       Permuted(dd.existingArticles, w))
         IN  {other[k] : k \in 1..Len(other)} = Survivors

\* The candidates joined to those of S by a chain of similar pairs.
RECURSIVE Component(_)
Component(S) ==
  LET more == {b \in Candidates : \E a \in S : Similar(a, b)}
  IN  IF more \subseteq S THEN S ELSE Component(S \cup more)

\* C15: advancedDuplicateRemoval returns exactly one survivor for every
\* connected component of the relation similarity >= threshold over the
\* candidates, and that survivor has the highest engagement score of the
\* component.
C15_OnePerComponent ==
  dd.pc = "advancedDuplicateRemoval" =>
    \A a \in Candidates :
      LET kept == Survivors \cap Component({a})
      IN  /\ Cardinality(kept) = 1
          /\ \A s \in kept : \A b \in Component({a}) :
               s.engagement_score >= b.engagement_score

C16_WithinPostLength ==
  gp.pc = "assembled" => TextLength(gp.fullText) <= MaxPostLength

\* The posts of the batch the metrics tick has gone past.
MetricsDone ==
  {mt.recentPosts[k] : k \in {j \in 1..Len(mt.recentPosts) :
       j < mt.i \/ (j = mt.i /\ mt.pc \in {"delay", "returned"})}}

\* C19: a failure to fetch or to store the metrics of one post of the
\* batch does not end the metrics tick: the tick goes on to the next post,
\* asks for the metrics of every selected post exactly once, and ends only
\* after the last one.
C19_MetricsBatchIsolated ==
  /\ mt.pc # "threw" \/ mt.recentPosts = <<>>
  /\ \A p \in MetricsDone : mt.attempted[p] = 1
  /\ mt.pc = "returned" =>
       MetricsDone = {mt.recentPosts[k] : k \in 1..Len(mt.recentPosts)}

\* A tick has ended after the refresh of the first post of its batch
\* failed and the second post was refreshed.
C19_Witness ==
  /\ mt.pc = "returned"
  /\ Len(mt.recentPosts) = 2
  /\ mt.recentPosts[1] \in mt.failed
  /\ mt.updated = 1
  /\ mt.attempted[mt.recentPosts[2]] = 1

(***************************************************************************)
(* Claims about scheduling                                                 *)
(***************************************************************************)
\* C21: calculatePostTime returns a time strictly later than the instant of
\* its call; for the morning, afternoon and evening slots it is the slot
\* hour (8, 13, 18) with a minute jitter in 0..29 on the day of the call,
\* or that hour:minute on the next day when that time of the day of the
\* call is not later than the instant of the call.
C21_LaterThanNow ==
  sch.pc = "scheduled" =>
    /\ sch.postTime > sch.at
    /\ sch.timeSlot \in {"morning", "afternoon", "evening"} =>
         /\ HourOf(sch.postTime) = SlotHour[sch.timeSlot]
         /\ MinuteOf(sch.postTime) \in 0..29
         /\ sch.postTime % Minute = 0
         /\ LET today == sch.postTime - (DayOf(sch.postTime) - DayOf(sch.at)) * Day
            IN  DayOf(sch.postTime) = IF today > sch.at THEN DayOf(sch.at)
                                      ELSE DayOf(sch.at) + 1

\* A morning run started after 08:10 drew a jitter of at most ten minutes
\* and was given the next day.
C21_Witness ==
  /\ sch.pc = "scheduled" /\ sch.timeSlot = "morning"
  /\ HourOf(sch.at) = 8 /\ sch.randomMinutes <= 10
  /\ DayOf(sch.postTime) = DayOf(sch.at) + 1

\* C22: each scheduledTime a post-creation run assigns is not earlier than
\* the one the previous run of the same slot assigned, for every jitter.
C22_MonotonePerSlot ==
  (sch.pc = "scheduled" /\ sch.previous # NoTime)
    => sch.postTime >= sch.previous

(***************************************************************************)
(* Claims about the cleanup tick                                           *)
(***************************************************************************)
\* What the retention rule says is purged: a processed article, a
\* completed queue record or a failed post older than the window.
Purgeable(row) ==
  /\ CleanupDay - row.created_at > RetentionDays
  /\ \/ row.table = "articles" /\ row.state = "1"
     \/ row.table = "processing_queue" /\ row.state = "completed"
     \/ row.table = "facebook_posts" /\ row.state = "failed"

\* C23: the cleanup tick removes every processed article, completed queue
\* record and failed post older than the 30-day window, and nothing else.
C23_CleanupExact ==
  cl.pc = "done" =>
    \A id \in RowIds : (id \in cl.deleted) <=> Purgeable(cl.rows[id])

(***************************************************************************)
(* Claims about ranking                                                    *)
(***************************************************************************)
\* a is not ranked below b: higher relevance score, or the same and higher
\* engagement score, or both the same and not older.
RanksNotBelow(a, b) ==
  \/ a.relevance_score > b.relevance_score
  \/ /\ a.relevance_score = b.relevance_score
     /\ \/ a.engagement_score > b.engagement_score
        \/ /\ a.engagement_score = b.engagement_score
           /\ a.published_date >= b.published_date

\* C24: sortByEngagement returns a permutation of its input (each article
\* once, with its relevance score), in descending order of relevance
\* score, then of engagement score, then of publish time.
C24_SortedPermutation ==
  so.pc = "sorted" =>
    /\ Len(so.sorted) = Len(so.articles)
    /\ \A k \in 1..Len(so.articles) :
         Cardinality({i \in 1..Len(so.sorted) :
                        so.sorted[i] =
                          [relevance_score |->
                             calculateRelevanceScore(so.articles[k])]
                            @@ so.articles[k]}) = 1
    /\ \A i, j \in 1..Len(so.sorted) :
         i < j => RanksNotBelow(so.sorted[i], so.sorted[j])

\* A batch given in ascending order whose three articles are told apart by
\* the relevance score, the engagement score and the publish time.
C24_Witness ==
  /\ so.pc = "sorted"
  /\ [k \in 1..Len(so.articles) |-> so.articles[k].id] = <<3, 4, 2>>
  /\ [k \in 1..Len(so.sorted) |-> so.sorted[k].id] = <<2, 4, 3>>

(***************************************************************************)
(* Claims about validation                                                 *)
(***************************************************************************)
\* C25: validatePost returns isValid = FALSE for every text shorter than
\* 50 characters and for every text whose capital letters are more than
\* 0.3 of its length, and isValid is TRUE exactly when it lists no issue.
C25_ShortOrLoudIsInvalid ==
  vp.pc = "validated" =>
    /\ vp.postText.length < 50 => ~vp.validation.isValid
    /\ (vp.postText.length > 0
          /\ 10 * vp.postText.caps > 3 * vp.postText.length)
         => ~vp.validation.isValid
    /\ vp.validation.isValid <=> (vp.validation.issues = <<>>)

\* A text of 100 characters, 31 of them capitals, with no other fault.
C25_Witness ==
  /\ vp.pc = "validated"
  /\ vp.postText.length = 100 /\ vp.postText.caps = 31
  /\ vp.validation.issues = <<"Too many capital letters">>
  /\ ~vp.validation.isValid

(***************************************************************************)
(* Claims about the time gate of publishing                                *)
(***************************************************************************)
\* C26: the Delivery Client is never invoked for a post whose scheduledTime
\* is later than the instant at which the publishing tick selected its
\* batch, nor for a post that was not pending at that selection.
C26_TimeGated ==
  \A d \in fl.delivered :
    /\ fl.rows[d.id].scheduledTime <= d.selectedAt
    /\ d.pending

(***************************************************************************)
(* Claims about the recent window of the DuplicateDetector                 *)
(***************************************************************************)
\* C27: a new candidate that has the canonical url of a recent-window
\* article, or is similar to one, is dropped by removeDuplicates whatever
\* its engagement score, and the output holds new candidates only, no
\* recent-window article.
C27_RecentWindowWins ==
  dd.pc = "removeDuplicates" =>
    /\ \A a \in Candidates :
         (\E e \in Recent : SameCanonicalUrl(a, e) \/ Similar(a, e))
           => a \notin Survivors
    /\ Survivors \subseteq Candidates
    /\ Survivors \cap Recent = {}

\* A candidate of higher engagement score than the recent-window article
\* it is similar to, under another url, is dropped.
C27_Witness ==
  /\ dd.pc = "removeDuplicates"
  /\ \E a \in Candidates, e \in Recent :
       /\ Similar(a, e) /\ ~SameCanonicalUrl(a, e)
       /\ a.engagement_score > e.engagement_score
       /\ a \notin Survivors

(***************************************************************************)
(* Claims about the backoff of the Delivery Client                         *)
(***************************************************************************)
\* C28: within one request the wait after failed attempt k, before attempt
\* k + 1, is retryDelay * k, and no wait follows the attempt that ends the
\* request, the last of retryAttempts included.
C28_LinearBackoff ==
  \A r \in Requests :
    /\ \A k \in 1..Len(r.waits) : r.waits[k] = RetryDelay * k
    /\ r.st = "running" => Len(r.waits) = r.calls
    /\ (r.st # "running" /\ r.calls > 0) => Len(r.waits) = r.calls - 1
    /\ Len(r.waits) < Max(r.retryAttempts, 1)

\* A request that failed three times out of three waited 5000 ms and then
\* 10000 ms, and raised without a third wait.
C28_Witness ==
  \E r \in Requests :
    /\ r.retryAttempts = 3 /\ r.calls = 3 /\ r.st = "raised"
    /\ r.waits = <<RetryDelay, 2 * RetryDelay>>

(***************************************************************************)
(* Claims about failures inside an ingestion run                           *)
(***************************************************************************)
\* The steps of run r that leave the save of its current article.
CreateRaised(r) ==
  run[r].pc = "create" /\ run'[r].pc # "queueAdd" /\ run'[r] # run[r]
CreateReturned(r) == run[r].pc = "create" /\ run'[r].pc = "queueAdd"
QueueAddDone(r) == run[r].pc = "queueAdd" /\ run'[r] # run[r]
QueueAddRaised(r) == QueueAddDone(r) /\ queue' = queue

\* Whatever the outcome of the save of one article, the loop goes on to
\* the next article of the batch and the run ends after the last one, by
\* its finally block.
SaveLoopRunsToEnd ==
  \A r \in Runs :
    /\ (CreateRaised(r) \/ QueueAddDone(r))
         => \/ /\ run[r].i < Len(run[r].batch)
               /\ run'[r].pc = "create" /\ run'[r].i = run[r].i + 1
               /\ run'[r].batch = run[r].batch
            \/ /\ run[r].i = Len(run[r].batch)
               /\ run'[r].pc = "finished"
    /\ CreateReturned(r)
         => (run'[r].i = run[r].i /\ run'[r].batch = run[r].batch)
    /\ run[r].pc = "finished"
         => (run'[r] = run[r] \/ (run'[r] = IdleRun /\ ~isProcessing'))

\* C29 as stated: a failure to save one article (Article.create or
\* ProcessingQueue.add raising) does not abort the ingestion run: every
\* remaining article is still attempted and the run ends normally, and the
\* failed article is absent from the saved set.
C29_FailedSaveIsAbsent ==
  [][/\ SaveLoopRunsToEnd
     /\ \A r \in Runs :
          /\ CreateRaised(r) => run'[r].saved = run[r].saved
          /\ QueueAddRaised(r)
               => \A k \in 1..Len(run'[r].saved) :
                    run'[r].saved[k] # run[r].last.id]_vars

\* C29 as amended: a failure to save one article does not abort the run:
\* every remaining article is still attempted and the run ends normally.
\* An article whose Article.create raised is absent from the saved set and
\* adds no row; an article whose ProcessingQueue.add raised stays in the
\* saved set and in the articles table, without a queue record.
C29_FailedSaveIsIsolated ==
  [][/\ SaveLoopRunsToEnd
     /\ \A r \in Runs :
          /\ CreateRaised(r)
               => (run'[r].saved = run[r].saved /\ articles' = articles)
          /\ QueueAddRaised(r)
               => /\ run'[r].saved = run[r].saved
                  /\ run[r].saved[Len(run[r].saved)] = run[r].last.id
                  /\ \E k \in 1..Len(articles) :
                       articles[k].id = run[r].last.id]_vars

\* A run is at the second article of its batch after Article.create raised
\* for the first.
C29_Witness ==
  \E r \in Runs :
    /\ run[r].pc = "create" /\ run[r].i = 2
    /\ run[r].last.raised /\ run[r].last.url = run[r].batch[1]

(***************************************************************************)
(* Claims about scraping                                                   *)
(***************************************************************************)
\* The articles a source gives: the fresh items of its feed when the fetch
\* succeeded, none when it failed.
RECURSIVE FreshIds(_)
FreshIds(items) ==
  IF items = <<>> THEN <<>>
  ELSE (IF Head(items).kind = "fresh" THEN <<Head(items).id>> ELSE <<>>)
       \o FreshIds(Tail(items))

RECURSIVE ArticlesOfSucceeded(_)
ArticlesOfSucceeded(s) ==
  IF s > sa.n THEN <<>>
  ELSE (IF sa.feed[s].ok THEN FreshIds(sa.feed[s].items) ELSE <<>>)
       \o ArticlesOfSucceeded(s + 1)

\* C30: at most maxConcurrent fetches are in flight, all of one batch; a
\* failed fetch gives an empty list and aborts neither the other fetches
\* of its batch nor a later batch: when scrapeAllSources returns, every
\* source has been fetched and the result is the articles of the sources
\* whose fetch succeeded.
C30_BatchesIsolateFailures ==
  /\ Cardinality(sa.pending) <= sa.maxConcurrent
  /\ sa.pending \subseteq Batch(sa.i, sa.maxConcurrent, sa.n)
  /\ sa.pc = "returned" =>
       /\ sa.fetched = 1..sa.n
       /\ sa.allArticles = ArticlesOfSucceeded(1)

\* Four sources in batches of two: the first fetch failed, the second of
\* the same batch and both of the next batch gave their articles.
C30_Witness ==
  /\ sa.pc = "returned" /\ sa.n = 4 /\ sa.maxConcurrent = 2
  /\ ~sa.feed[1].ok
  /\ sa.allArticles = <<2, 3, 4>>


\* C31: each post is accepted by the Delivery Client (createPost succeeds)
\* at most once, over every sequence and every overlap of publishing ticks.
C31_AcceptedAtMostOnce ==
  \A p \in PostIds : Cardinality(delivery[p].accepted) <= 1

\* No tick is inside publishPost for this post.
Settled(p) ==
  \A t \in Ticks : tick[t].pc = "idle" \/ Cur(t) # p \/ tick[t].pc = "returned"

\* C32: the recorded status agrees with the Delivery Client: while the
\* process has not died, once publishPost is over a post createPost
\* accepted is posted (not failed, not pending), and a failed post was not
\* accepted.
C32_StatusAgreesWithDelivery ==
  \A p \in PostIds :
    (crashes = 0 /\ Settled(p)) =>
      /\ delivery[p].accepted # {} => posts[p].status = "posted"
      /\ posts[p].status = "failed" => delivery[p].accepted = {}


\* C33: the busy flag is cleared on every exit path of an ingestion run
\* (completion, early return, exception), so whenever no run is in
\* progress the flag is clear and the next trigger starts a run.
C33_FlagClearedOnEveryExit ==
  /\ [][\A r \in Runs :
          (r \in InProgress /\ run'[r].pc = "idle") => ~isProcessing']_vars
  /\ [](InProgress = {} => ~isProcessing)
  /\ [][\A r \in Runs :
          (InProgress = {} /\ run[r].pc = "idle" /\ run'[r].pc # "idle")
            => (run'[r].pc = "scraping" /\ isProcessing')]_vars

\* A second run is scraping after the first one ended without an article
\* (the early return or an exception of a stage).
C33_Witness ==
  \E r \in Runs : run[r].pc = "scraping" /\ scrapes = 2 /\ articles = <<>>


\* C34: with publishing ticks that keep firing and Delivery Client calls
\* that terminate, every pending post whose scheduled_time has passed
\* eventually reaches posted or failed (unless the process dies meanwhile
\* or the store refuses to take the post into posting).
C34_ReadyPostResolves ==
  \A p \in PostIds :
    (crashes = 0 /\ posts[p].status = "pending" /\ posts[p].scheduled_time <= now)
      ~> \/ posts[p].status \in {"posted", "failed"}
         \/ crashes > 0
         \/ \E t \in Ticks : p \in tick[t].unmarked


\* The two articles are duplicates of each other: one canonical url, or
\* similarity at or above the threshold.
DuplicatePair(a, b) == SameCanonicalUrl(a, b) \/ Similar(a, b)

\* C35: the output of removeDuplicates holds no duplicate pair: no two
\* survivors, and no survivor and recent-window article, have one canonical
\* url or similarity at or above the threshold.
C35_NoDuplicatePairSurvives ==
  dd.pc = "removeDuplicates" =>
    /\ \A a, b \in Survivors : a # b => ~DuplicatePair(a, b)
    /\ \A a \in Survivors : \A e \in Recent : ~DuplicatePair(a, e)

\* Two candidates survive and a third, similar to one of them under another
\* url, was dropped.
C35_Witness ==
  /\ dd.pc = "removeDuplicates"
  /\ Cardinality(Survivors) >= 2
  /\ \E a \in Candidates \ Survivors : \E b \in Survivors :
       Similar(a, b) /\ ~SameCanonicalUrl(a, b)

\* C36: every candidate removeDuplicates dropped has a duplicate that
\* remains: a survivor or a recent-window article of the same canonical url
\* or of similarity at or above the threshold.
C36_DroppedHasRemainingDuplicate ==
  dd.pc = "removeDuplicates" =>
    \A a \in Candidates \ Survivors :
      \E b \in Survivors \cup Recent : DuplicatePair(a, b)


C38_ReturnsDataOrRaises ==
  \A r \in Requests :
    r.st = "returned"
      => /\ r.data = "data"
         /\ r.resps # <<>> /\ r.resps[Len(r.resps)].kind = "ok"


(***************************************************************************)
(* Claims about the validation of the credentials                          *)
(***************************************************************************)
\* Every call of the Delivery Client answers, and the event loop runs the
\* continuation that waits for it.
FairSpecCredentials == SpecCredentials /\ WF_vars(NextVc)

\* C39: validateCredentials terminates for every behaviour of the Delivery
\* Client: after a bounded number of token refreshes and re-validations it
\* returns the page info or raises.
C39_ValidateCredentialsTerminates ==
  <>(vc.pc \in {"returned", "raised"})

=============================================================================
